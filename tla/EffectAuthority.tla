--------------------------- MODULE EffectAuthority ---------------------------
(***************************************************************************)
(* What the durable outbox promises about one external effect, said        *)
(* without leases, clocks or attempt rows: an effect is authorised once,   *)
(* is granted to a host a number of times, and is settled once, either by  *)
(* the outcome of the LATEST grant or by being withdrawn.  An effect whose *)
(* execution cannot be repeated safely is granted at most once.            *)
(*                                                                         *)
(* One transaction of the program may move several effects (a recovery     *)
(* settles one and authorises another), so a step moves every effect along *)
(* its own life cycle, or leaves it where it is.                           *)
(***************************************************************************)
EXTENDS Naturals

CONSTANTS Intents,      \* the identities an effect can have
          Requests,     \* what an effect asks of the host
          Exact,        \* the requests that may be granted again
          NoRequest     \* an effect that does not exist yet

VARIABLE authority

Effect(status, request, grants, outcome) ==
    [status |-> status, request |-> request, grants |-> grants, outcome |-> outcome]

Unauthorized == Effect("none", NoRequest, 0, 0)

AInit == authority = [i \in Intents |-> Unauthorized]

-----------------------------------------------------------------------------
(* One effect's life cycle, as a relation between its record and its next. *)

Authorized(old, new) ==
    /\ old = Unauthorized
    /\ \E r \in Requests : new = Effect("authorized", r, 0, 0)

Granted(old, new) ==
    /\ \/ old.status = "authorized"
       \/ old.status = "granted" /\ old.request \in Exact
    /\ new = Effect("granted", old.request, old.grants + 1, 0)

Answered(old, new) ==
    /\ old.status = "granted"
    /\ new = Effect("settled", old.request, old.grants, old.grants)

Withdrawn(old, new) ==
    /\ old.status \in {"authorized", "granted"}
    /\ new = Effect("settled", old.request, old.grants, 0)

LifeCycle(old, new) ==
    \/ Authorized(old, new)
    \/ Granted(old, new)
    \/ Answered(old, new)
    \/ Withdrawn(old, new)

ANext == \A i \in Intents :
            authority'[i] = authority[i] \/ LifeCycle(authority[i], authority'[i])

ASpec == AInit /\ [][ANext]_authority
=============================================================================
