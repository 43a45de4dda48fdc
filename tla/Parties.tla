------------------------------- MODULE Parties -------------------------------
(***************************************************************************)
(* Who takes part in the completion service, shared by all its parts.      *)
(***************************************************************************)
EXTENDS Naturals

CONSTANTS Users,     \* the configured humans
          Requests,  \* the calls of Service.execute
          Updates,   \* the incoming Telegram updates; an update also names the
                     \* reply it carries
          None       \* no user, no request, no reply

ASSUME PartiesAssumption == None \notin Users \cup Requests \cup Updates

=============================================================================
