------------------------------ MODULE Backend ------------------------------
(* Which of the two backends serves the store; never both on one database. *)
VARIABLE backend

Backends == {"fastapi", "django"}
FastAPI == backend = "fastapi"
Django == backend = "django"
=============================================================================
