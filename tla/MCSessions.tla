----------------------------- MODULE MCSessions -----------------------------
(***************************************************************************)
(* Small instances of Sessions.  An earlier login has been answered; then  *)
(* either another login, a logout and a check use the cookie, served by    *)
(* revisions with the old and the new password, or two more logins come    *)
(* at any distance in time.                                                *)
(***************************************************************************)
EXTENDS Sessions

CONSTANTS
  first,         \* the login that was answered
  last,          \* the login that only comes in a long succession
  visit,         \* the check
  old            \* the first login's credential

Issue ==
  [created |-> 0, credential |-> old, revokedBy |-> None, etag |-> 1]

StartAfterLogin(idle) ==
  /\ now = 0
  /\ rows = [s \in Login |-> IF s = first THEN Issue ELSE None]
  /\ pc = [r \in Request |-> IF r \in idle THEN "idle" ELSE "done"]
  /\ answer = [r \in Request |-> IF r \in idle THEN "none" ELSE IF r = first THEN "ok" ELSE "error"]
  /\ token = [r \in Request |-> None]
  /\ credential = [r \in Request |-> IF r = first THEN old ELSE None]
  /\ loaded = [r \in Request |-> None]
  /\ attempts = [r \in Request |-> 0]
  /\ cutoff = [r \in Login |-> 0]
  /\ page = [r \in Login |-> {}]
  /\ continuation = [r \in Login |-> None]
  /\ inflight = [r \in Request |-> None]
  /\ faults = 0
  /\ tooLate = {}

Users == Request \ {first, last}

Logins == Login \ {first}

Succession == pc[visit] = "done" /\ credential[visit] = None

\* A succession of logins meets one password only, the others one lifetime only.
StartsNext ==
  /\ Next
  /\ IF Succession THEN \A r \in Logins : credential'[r] \in {None, old}
     ELSE now' <= Lifetime

StartsSpec ==
  /\ StartAfterLogin(Users) \/ StartAfterLogin(Logins)
  /\ [][StartsNext]_vars
  /\ \A r \in Request : WF_vars(Work(r))
=============================================================================
