---------------------------- MODULE RefreshSessions ----------------------------
(***************************************************************************)
(* The sessions of one user's browser: a login writes a row of             *)
(* refresh_sessions and hands out its token in a cookie, a refresh trades   *)
(* the cookie's token for a new one, a logout revokes it.  The tabs of the *)
(* browser share the cookie and ask at the same time; answers arrive in    *)
(* any order.  Each handler commits after every write of the repository,   *)
(* so a handler that dies leaves what it has committed.  Access tokens,    *)
(* which no table holds, and the audit are left out.                       *)
(***************************************************************************)
EXTENDS Naturals

CONSTANTS
  Tabs,       \* requests of the browser under way at a time
  NoCookie,
  MaxTokens,  \* bound: refresh tokens ever made
  MaxCrashes  \* bound: handlers that die

ASSUME SessionsAssumption ==
  MaxTokens \in Nat /\ MaxCrashes \in Nat /\ NoCookie \notin Nat

VARIABLES
  token,    \* rows of refresh_sessions, in the order they were made
  cookie,   \* what the browser holds
  tab,      \* per tab, its request and what it has in hand
  enabled,  \* users.is_active
  ended,    \* tokens revoked because the session was to end
  missed,   \* tokens the browser presented without getting the answer
  crashes

sessionVars == <<token, cookie, tab, enabled, ended, missed, crashes>>

Tokens == 1 .. MaxTokens
Quiet == [pc |-> "quiet"]
Unused == {t \in Tokens : token[t] = "none" /\ \A u \in Tokens : u < t => token[u] # "none"}

SessionsInit ==
  /\ token = [t \in Tokens |-> "none"] /\ cookie = NoCookie
  /\ tab = [p \in Tabs |-> Quiet] /\ enabled = TRUE /\ ended = {} /\ missed = {} /\ crashes = 0

Go(p, hand) == tab' = [tab EXCEPT ![p] = hand]
\* get_active: neither revoked nor expired
Active(t) == token[t] = "live"
Revoked(t) == IF Active(t) THEN [token EXCEPT ![t] = "revoked"] ELSE token
Created(p, old) ==
  \E new \in Unused :
    /\ token' = [token EXCEPT ![new] = "live"]
    /\ Go(p, [pc |-> IF old = NoCookie THEN "answered" ELSE "revoke", token |-> old, cookie |-> new])

-----------------------------------------------------------------------------
\* login: the password has been verified; an older session is left as it is
Login(p) ==
  /\ tab[p] = Quiet /\ enabled /\ Created(p, NoCookie)
  /\ UNCHANGED <<cookie, enabled, ended, missed, crashes>>

Refresh(p) ==
  /\ tab[p] = Quiet /\ cookie # NoCookie /\ Go(p, [pc |-> "session", token |-> cookie])
  /\ UNCHANGED <<token, cookie, enabled, ended, missed, crashes>>

\* a slip: the token is spent when it is presented
ReadSession_Spends(p) ==
  /\ tab[p].pc = "session"
  /\ Go(p, IF Active(tab[p].token) THEN [tab[p] EXCEPT !.pc = "user"] ELSE Quiet)
  /\ token' = Revoked(tab[p].token) /\ UNCHANGED <<cookie, enabled, ended, missed, crashes>>
ReadSession(p) ==
  /\ tab[p].pc = "session"
  /\ Go(p, IF Active(tab[p].token) THEN [tab[p] EXCEPT !.pc = "user"] ELSE Quiet)
  /\ UNCHANGED <<token, cookie, enabled, ended, missed, crashes>>

ReadUser(p) ==
  /\ tab[p].pc = "user"
  /\ IF enabled THEN Go(p, [tab[p] EXCEPT !.pc = "create"]) /\ UNCHANGED <<token, ended>>
     ELSE /\ Go(p, Quiet) /\ token' = Revoked(tab[p].token)
          /\ ended' = ended \cup {tab[p].token}
  /\ UNCHANGED <<cookie, enabled, missed, crashes>>

CreateSession(p) ==
  /\ tab[p].pc = "create" /\ Created(p, tab[p].token)
  /\ UNCHANGED <<cookie, enabled, ended, missed, crashes>>

RevokeOld(p) ==
  /\ tab[p].pc = "revoke" /\ token' = Revoked(tab[p].token)
  /\ Go(p, [tab[p] EXCEPT !.pc = "answered"])
  /\ UNCHANGED <<cookie, enabled, ended, missed, crashes>>

Logout(p) ==
  /\ tab[p] = Quiet /\ cookie # NoCookie
  /\ token' = Revoked(cookie) /\ ended' = ended \cup {cookie}
  /\ Go(p, [pc |-> "answered", token |-> cookie, cookie |-> NoCookie])
  /\ UNCHANGED <<cookie, enabled, missed, crashes>>

\* the browser takes the cookie of whichever answer comes, the last one counts
Answer(p) ==
  /\ tab[p].pc = "answered" /\ cookie' = tab[p].cookie /\ Go(p, Quiet)
  /\ UNCHANGED <<token, enabled, ended, missed, crashes>>
LoseAnswer(p) ==
  /\ tab[p].pc = "answered" /\ Go(p, Quiet) /\ missed' = missed \cup {tab[p].token}
  /\ UNCHANGED <<token, cookie, enabled, ended, crashes>>

\* the process dies, or the database refuses: the browser gets an error
Die(p) ==
  /\ tab[p].pc \in {"session", "user", "create", "revoke"} /\ crashes < MaxCrashes
  /\ Go(p, Quiet) /\ crashes' = crashes + 1
  /\ UNCHANGED <<token, cookie, enabled, ended, missed>>

Expires ==
  /\ \E t \in Tokens : Active(t) /\ token' = [token EXCEPT ![t] = "expired"]
  /\ UNCHANGED <<cookie, tab, enabled, ended, missed, crashes>>

\* toggle_user_status: the sessions are left as they are
ToggleUser == enabled' = ~enabled /\ UNCHANGED <<token, cookie, tab, ended, missed, crashes>>

SessionsNext ==
  \/ Expires \/ ToggleUser
  \/ \E p \in Tabs :
       \/ Login(p) \/ Refresh(p) \/ ReadSession(p) \/ ReadUser(p) \/ CreateSession(p)
       \/ RevokeOld(p) \/ Logout(p) \/ Answer(p) \/ LoseAnswer(p) \/ Die(p)

SessionsSpec == SessionsInit /\ [][SessionsNext]_sessionVars

-----------------------------------------------------------------------------
\* A refresh costs the user his session only when its answer is lost: the
\* token in his browser is not a revoked one, unless the session was ended on
\* purpose, the answer that replaces the cookie is on its way, or it is that
\* answer that never came, however the tabs' requests overlap and wherever a
\* handler dies; the new row is committed before the old one is revoked, and
\* only the token that was presented is.  A lost answer does leave a revoked
\* token behind: the presented one is spent and no grace lets it in again.
ClientKeepsSession ==
  cookie # NoCookie /\ token[cookie] = "revoked" =>
    \/ cookie \in ended \cup missed
    \/ \E p \in Tabs : tab[p].pc = "answered" /\ tab[p].token = cookie

=============================================================================
