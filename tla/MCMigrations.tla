---------------------------- MODULE MCMigrations ----------------------------
(* The start of a container, and of a developer's application.             *)
EXTENDS Migrations

MCSpec == MigrationsSpec
=============================================================================
