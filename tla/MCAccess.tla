------------------------------ MODULE MCAccess ------------------------------
(* One mailbox, its form on the Settings page and one command.             *)
EXTENDS Access

CONSTANTS box, user

MCUserOf == [m \in {box} |-> user]
=============================================================================
