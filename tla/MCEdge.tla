------------------------------- MODULE MCEdge -------------------------------
(***************************************************************************)
(* Small instances of the specifications that share no state with each     *)
(* other or with the rest: the rate limit, sessions, the request path, the *)
(* API key cache and admission.  A behaviour is one of one of them, chosen *)
(* at the start; the others stay in an initial state, in which none of     *)
(* their fair actions can change anything.                                 *)
(***************************************************************************)
EXTENDS RateLimit, Sessions, RequestPath, ApiKeyCache, MCAdmission

\* The permissions the roles list and some they do not.
Asked ==
  UNION {permissions[r] : r \in Role} \cup {P("admin", "delete"), P("energy", "delete"),
                                           P("reports", "read"), P("users", "create")}

VARIABLE part   \* the specification whose behaviour this is

edgeVars == <<part, rateVars, sessionVars, pathVars, keyVars, admissionVars>>

EdgeInit ==
  /\ part \in {"rate", "session", "path", "key", "admission"}
  /\ RateInit /\ SessionInit /\ PathInit /\ KeyInit /\ AdmissionInit
  /\ part # "key" => keyActive
  /\ part # "admission" => cpuLimit = 1

EdgeNext ==
  /\ \/ /\ part = "rate" /\ RateNext
        /\ UNCHANGED <<sessionVars, pathVars, keyVars, admissionVars>>
     \/ /\ part = "session" /\ SessionNext
        /\ UNCHANGED <<rateVars, pathVars, keyVars, admissionVars>>
     \/ /\ part = "path" /\ PathNext
        /\ UNCHANGED <<rateVars, sessionVars, keyVars, admissionVars>>
     \/ /\ part = "key" /\ KeyNext
        /\ UNCHANGED <<rateVars, sessionVars, pathVars, admissionVars>>
     \/ /\ part = "admission" /\ AdmissionNext
        /\ UNCHANGED <<rateVars, sessionVars, pathVars, keyVars>>
  /\ UNCHANGED part

EdgeFairSpec ==
  EdgeInit /\ [][EdgeNext]_edgeVars
    /\ RateFairness /\ KeyFairness /\ AdmissionFairness
=============================================================================
