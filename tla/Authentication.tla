--------------------------- MODULE Authentication ---------------------------
(***************************************************************************)
(* Sign-in, lockout, refresh tokens and password resets on the side of the *)
(* API (AuthService); Sessions.tla has the device's side of a session.     *)
(*                                                                         *)
(* A session is a family of refresh tokens, each exchanged for the next,   *)
(* and is named after the first.  The passwords of an account that resets  *)
(* have set are numbered; opened is the one a session began with.  Refresh *)
(* tokens do not expire here.                                              *)
(*                                                                         *)
(* History variables: ended holds the sessions that were logged out,       *)
(* revoked or found to be replayed; outdated and staleCall are as          *)
(* overtaken and staleCommit in Membership.tla; cutOff tells that a reset  *)
(* died before it revoked the sessions; calls is the number of requests    *)
(* still to be begun.                                                      *)
(***************************************************************************)
EXTENDS Tenants

CONSTANTS
    Callers,        \* handlers that may be in flight together
    RefreshTokens,  \* identities of refresh tokens
    ResetLinks,     \* identities of password-reset tokens
    Threshold       \* ACCOUNT_LOCKOUT_THRESHOLD

ASSUME ThresholdAssumption == Threshold \in Nat \ {0}

VARIABLES password, login, token, link, call, ended, outdated, staleCall, cutOff, calls

authTables == <<password, login, token, link>>
authHistory == <<ended, outdated, staleCall, cutOff, calls>>
authOnly == <<authTables, call, authHistory>>

(***************************************************************************)
(* The tables.                                                             *)
(***************************************************************************)
LoginRows == [attempts : Nat, locked : BOOLEAN]
Unblemished == [attempts |-> 0, locked |-> FALSE]

Without(st) == [state |-> st]
TokenRows == [state : {"new", "gone"}]
             \cup [state : {"live", "revoked"}, e : Emails, family : RefreshTokens, opened : Nat]
LinkRows == [state : {"new", "gone"}] \cup [state : {"open", "used"}, e : Emails]

HasAccount(e) == account[e] # NoAccount
Unissued == {t \in RefreshTokens : token[t].state = "new"}
Issued == {t \in RefreshTokens : token[t].state \in {"live", "revoked"}}
LiveTokens == {t \in Issued : token[t].state = "live"}
LiveOf(e) == {t \in LiveTokens : token[t].e = e}
LiveIn(f) == {t \in LiveTokens : token[t].family = f}
Families(e) == {token[t].family : t \in {u \in Issued : token[u].e = e}}
Unsent == {k \in ResetLinks : link[k].state = "new"}
Sent == {k \in ResetLinks : link[k].state \in {"open", "used"}}
Usable == {k \in Sent : link[k].state = "open"}

(***************************************************************************)
(* Handlers in flight.  issue: createTokenPair is still to come, in a      *)
(* session or, with none, for a new one; revokeRest: the password has been *)
(* reset and the sessions are still to be revoked.                         *)
(***************************************************************************)
Away == [pc |-> "away"]
NoFamily == "no family"
ASSUME FamilyAssumption == NoFamily \notin RefreshTokens

Calls == {Away}
         \cup [pc : {"fail"}, e : Emails, attempts : Nat]
         \cup [pc : {"clear"}, e : Emails, opened : Nat]
         \cup [pc : {"issue"}, e : Emails, family : RefreshTokens \cup {NoFamily}, opened : Nat]
         \cup [pc : {"rotate", "reuse", "logout"}, t : RefreshTokens, e : Emails]
         \cup [pc : {"revokeAll", "revokeRest", "invalidate", "mail"}, e : Emails]
         \cup [pc : {"reset"}, k : ResetLinks, e : Emails]

Calling == {w \in Callers : call[w] # Away}

\* What a handler has read and goes by.  Failed sign-ins are left out: what
\* they count is no promise to anybody.
GoesBy(s) == CASE s.pc = "clear" -> {<<"password", s.e>>}
              [] s.pc = "issue" -> {<<"password", s.e>>, <<"session", s.family>>}
              [] s.pc \in {"rotate", "logout"} -> {<<"token", s.t>>}
              [] s.pc = "reset" -> {<<"link", s.k>>}
              [] OTHER -> {}

Request(w, s) == /\ call[w] = Away
                 /\ calls > 0
                 /\ calls' = calls - 1
                 /\ call' = [call EXCEPT ![w] = s]
                 /\ UNCHANGED <<authTables, ended, outdated, staleCall, cutOff>>

\* w writes rows and goes on as s.
Store(w, s, rows) ==
    /\ call' = [call EXCEPT ![w] = s]
    /\ staleCall' = (staleCall \/ w \in outdated)
    /\ outdated' = IF staleCall' THEN {}
                   ELSE (outdated \cup {v \in Calling \ {w} : GoesBy(call[v]) \cap rows # {}})
                        \ (IF s = Away THEN {w} ELSE {})
    /\ UNCHANGED <<cutOff, calls>>

\* Nobody has signed in yet.
AuthInit ==
    /\ password = [e \in Emails |-> 0]
    /\ login = [e \in Emails |-> Unblemished]
    /\ token = [t \in RefreshTokens |-> Without("new")]
    /\ link = [k \in ResetLinks |-> Without("new")]
    /\ call = [w \in Callers |-> Away]
    /\ ended = {} /\ outdated = {} /\ staleCall = FALSE /\ cutOff = FALSE

(***************************************************************************)
(* Signing in.                                                             *)
(***************************************************************************)
\* With a wrong password or the right one; a locked account is refused.
loginRead(w) == \E e \in Emails :
    /\ HasAccount(e) /\ ~login[e].locked
    /\ \/ Request(w, [pc |-> "fail", e |-> e, attempts |-> login[e].attempts + 1])
       \/ Request(w, [pc |-> "clear", e |-> e, opened |-> password[e]])

handleFailedLogin(w) ==
    LET s == call[w]
    IN  /\ s.pc = "fail"
        /\ login' = [login EXCEPT ![s.e] = [attempts |-> s.attempts,
                                            locked |-> @.locked \/ s.attempts >= Threshold]]
        /\ Store(w, Away, {})
        /\ UNCHANGED <<password, token, link, ended>>

clearFailures(w) ==
    LET s == call[w]
    IN  /\ s.pc = "clear"
        /\ login' = [login EXCEPT ![s.e] = Unblemished]
        /\ Store(w, [pc |-> "issue", e |-> s.e, family |-> NoFamily, opened |-> s.opened], {})
        /\ UNCHANGED <<password, token, link, ended>>

createTokenPair(w) ==
    LET s == call[w]
    IN  /\ s.pc = "issue"
        /\ Unissued # {}
        /\ LET t == CHOOSE u \in Unissued : TRUE
           IN  token' = [token EXCEPT
                    ![t] = [state |-> "live", e |-> s.e, opened |-> s.opened,
                            family |-> IF s.family = NoFamily THEN t ELSE s.family]]
        /\ Store(w, Away, {})
        /\ UNCHANGED <<password, login, link, ended>>

(***************************************************************************)
(* Renewing and ending a session.                                          *)
(***************************************************************************)
Revoked(ts) == [t \in RefreshTokens |-> IF t \in ts THEN [token[t] EXCEPT !.state = "revoked"]
                                        ELSE token[t]]
\* The rows that the end of the sessions fs writes.
TokensOf(ts, fs) == {<<"token", t>> : t \in ts} \cup {<<"session", f>> : f \in fs}

\* A token that has been revoked is being replayed.
refreshRead(w) == \E t \in Issued :
    Request(w, [pc |-> IF token[t].state = "live" THEN "rotate" ELSE "reuse",
                t |-> t, e |-> token[t].e])

revokeFamily(w) ==
    LET f == token[call[w].t].family
    IN  /\ call[w].pc = "reuse"
        /\ token' = Revoked(LiveIn(f))
        /\ ended' = ended \cup {f}
        /\ Store(w, Away, TokensOf(LiveIn(f), {f}))
        /\ UNCHANGED <<password, login, link>>

\* The token is revoked by its id; its successor follows.
rotate(w) ==
    LET t == call[w].t
    IN  /\ call[w].pc = "rotate"
        /\ token' = Revoked({t})
        /\ Store(w, [pc |-> "issue", e |-> token[t].e, family |-> token[t].family,
                     opened |-> token[t].opened], TokensOf({t}, {}))
        /\ UNCHANGED <<password, login, link, ended>>

logoutRead(w) == \E t \in LiveTokens : Request(w, [pc |-> "logout", t |-> t, e |-> token[t].e])

logout(w) ==
    LET t == call[w].t
    IN  /\ call[w].pc = "logout"
        /\ token' = Revoked({t})
        /\ ended' = ended \cup {token[t].family}
        /\ Store(w, Away, TokensOf({t}, {token[t].family}))
        /\ UNCHANGED <<password, login, link>>

revokeAllSessions(w) == \E e \in Emails :
    HasAccount(e) /\ Request(w, [pc |-> "revokeAll", e |-> e])

\* Of revokeAllSessions, and of resetPassword after its transaction.
revokeAllForUser(w) ==
    LET e == call[w].e
    IN  /\ call[w].pc \in {"revokeAll", "revokeRest"}
        /\ token' = Revoked(LiveOf(e))
        /\ ended' = ended \cup Families(e)
        /\ Store(w, Away, TokensOf(LiveOf(e), Families(e)))
        /\ UNCHANGED <<password, login, link>>

(***************************************************************************)
(* Resetting a password.                                                   *)
(***************************************************************************)
forgotPassword(w) == \E e \in Emails :
    HasAccount(e) /\ Request(w, [pc |-> "invalidate", e |-> e])

invalidateUserTokens(w) ==
    LET e == call[w].e
        former == {k \in Usable : link[k].e = e}
    IN  /\ call[w].pc = "invalidate"
        /\ link' = [k \in ResetLinks |-> IF k \in former THEN [link[k] EXCEPT !.state = "used"]
                                         ELSE link[k]]
        /\ Store(w, [pc |-> "mail", e |-> e], {<<"link", k>> : k \in former})
        /\ UNCHANGED <<password, login, token, ended>>

sendResetLink(w) ==
    /\ call[w].pc = "mail"
    /\ Unsent # {}
    /\ link' = [link EXCEPT ![CHOOSE k \in Unsent : TRUE] = [state |-> "open", e |-> call[w].e]]
    /\ Store(w, Away, {})
    /\ UNCHANGED <<password, login, token, ended>>

resetRead(w) == \E k \in Usable : Request(w, [pc |-> "reset", k |-> k, e |-> link[k].e])

ResetWith(w, then) ==
    LET e == call[w].e
        k == call[w].k
    IN  /\ call[w].pc = "reset"
        /\ password' = [password EXCEPT ![e] = @ + 1]
        /\ login' = [login EXCEPT ![e] = Unblemished]
        /\ link' = [link EXCEPT ![k].state = "used"]
        /\ Store(w, then, {<<"password", e>>, <<"link", k>>})
        /\ UNCHANGED <<token, ended>>

\* Faulty variant: the sessions outlive the password.
resetOnly(w) == ResetWith(w, Away)

\* One transaction: password, lock and link; the sessions follow.
resetPassword(w) == ResetWith(w, [pc |-> "revokeRest", e |-> call[w].e])

(***************************************************************************)
(* Time, failures, and accounts that go.                                   *)
(***************************************************************************)
LockExpires == \E e \in Emails :
    /\ login[e].locked
    /\ login' = [login EXCEPT ![e].locked = FALSE]
    /\ UNCHANGED <<password, token, link, call, authHistory>>

LinkExpires == \E k \in Usable :
    /\ link' = [link EXCEPT ![k].state = "used"]
    /\ UNCHANGED <<password, login, token, call, authHistory>>

\* The process dies, or the database refuses a write.
CallDies(w) ==
    /\ w \in Calling
    /\ call' = [call EXCEPT ![w] = Away]
    /\ cutOff' = (cutOff \/ call[w].pc = "revokeRest")
    /\ outdated' = outdated \ {w}
    /\ UNCHANGED <<authTables, ended, staleCall, calls>>

\* Tokens go with their accounts (onDelete: Cascade), and the calls that were
\* about these come to nothing: what they would write is not there.
AccountsGo(gone) ==
    LET Lost(w) == w \in Calling /\ call[w].e \in gone
    IN  /\ login' = [e \in Emails |-> IF e \in gone THEN Unblemished ELSE login[e]]
        /\ token' = [t \in RefreshTokens |-> IF t \in Issued /\ token[t].e \in gone
                                             THEN Without("gone") ELSE token[t]]
        /\ link' = [k \in ResetLinks |-> IF k \in Sent /\ link[k].e \in gone
                                         THEN Without("gone") ELSE link[k]]
        /\ call' = [w \in Callers |-> IF Lost(w) THEN Away ELSE call[w]]
        /\ outdated' = {w \in outdated : ~Lost(w)}
        /\ UNCHANGED <<password, ended, staleCall, cutOff, calls>>

AuthRequest(w) == \/ loginRead(w) \/ refreshRead(w) \/ logoutRead(w) \/ revokeAllSessions(w)
                  \/ forgotPassword(w) \/ resetRead(w)

AuthContinue(w) == \/ handleFailedLogin(w) \/ clearFailures(w) \/ createTokenPair(w)
                   \/ revokeFamily(w) \/ rotate(w) \/ logout(w) \/ revokeAllForUser(w)
                   \/ invalidateUserTokens(w) \/ sendResetLink(w) \/ resetPassword(w)

AuthNext == \/ \E w \in Callers : AuthRequest(w) \/ AuthContinue(w) \/ CallDies(w)
            \/ LockExpires \/ LinkExpires

(***************************************************************************)
(* Properties.                                                             *)
(***************************************************************************)
\* Every row and handler holds a value of its type, and no token, link or
\* call outlives its account (onDelete: Cascade).
AuthTypeOK ==
    /\ password \in [Emails -> Nat] /\ login \in [Emails -> LoginRows]
    /\ token \in [RefreshTokens -> TokenRows] /\ link \in [ResetLinks -> LinkRows]
    /\ call \in [Callers -> Calls]
    /\ ended \subseteq RefreshTokens /\ outdated \subseteq Callers
    /\ staleCall \in BOOLEAN /\ cutOff \in BOOLEAN /\ calls \in Nat
    /\ \A t \in Issued : HasAccount(token[t].e)
    /\ \A k \in Sent : HasAccount(link[k].e)
    /\ \A w \in Calling : HasAccount(call[w].e)

\* As long as no handler writes on an overtaken read: a session that was logged
\* out, revoked ('Revoke all sessions') or replayed ('Refresh token reuse
\* detected') cannot be renewed again, no session has two tokens that renew it,
\* and none that was begun with an earlier password survives its reset, unless
\* the reset died before it revoked them.
EndedStaysEnded ==
    ~staleCall =>
        /\ \A t \in LiveTokens : token[t].family \notin ended /\ LiveIn(token[t].family) = {t}
        /\ \A e \in Emails :
              ~cutOff /\ (\A w \in Callers : call[w] # [pc |-> "revokeRest", e |-> e])
              => \A t \in LiveOf(e) : token[t].opened = password[e]
=============================================================================
