------------------------------ MODULE Sessions ------------------------------
(***************************************************************************)
(* A signed-in device: the tokens it stores, the renewal of its access     *)
(* token by the response interceptor (lib/api/client.ts), and the rotation *)
(* of refresh tokens by AuthService.                                       *)
(*                                                                         *)
(* Requests that are denied together share one renewal.  The server reads  *)
(* the refresh token, revokes it and creates the next one of its family;   *)
(* one that has been revoked revokes the family.  A renewal that fails for *)
(* whatever reason signs the device out.                                   *)
(*                                                                         *)
(* History: troubled tells that a renewal went unanswered or was cut off   *)
(* with the application.                                                   *)
(***************************************************************************)
EXTENDS Integers, FiniteSets

CONSTANTS
    Requesters,     \* those that send requests, each one at a time
    MaxExpiries     \* bound: how often an access token expires

VARIABLES access, stored, live, issued, refresh, awaits, troubled, expiries

sessionVars == <<access, stored, live, issued, refresh, awaits, troubled, expiries>>

\* Refresh tokens of the family are numbered as they are issued, 0 is none;
\* live holds those that are not revoked.
Access == {"none", "fresh", "expired"}

\* sent: the refresh request is under way; valid: the server has found its token
\* unrevoked; revoked: and has revoked it; answer: the new pair is under way;
\* storing: the access token is stored, the refresh token is not; failed: an error
\* was answered, or nothing.
NoRefresh == [pc |-> "idle", token |-> 0]
Refreshes == [pc : {"idle", "sent", "valid", "revoked", "answer", "storing", "failed"},
              token : 0 .. issued]

Refreshing == {r \in Requesters : refresh[r].pc # "idle"}

\* Whose renewal a requester waits for, and the outcome until it has seen it.
NotWaiting == "not waiting"
Outcomes == {"renewed", "signed out"}

ASSUME SessionAssumption == /\ MaxExpiries \in Nat
                            /\ Requesters \cap (Outcomes \cup {NotWaiting}) = {}

SessionInit == /\ access = "fresh" /\ stored = 1 /\ live = {1} /\ issued = 1
               /\ refresh = [r \in Requesters |-> NoRefresh]
               /\ awaits = [r \in Requesters |-> NotWaiting]
               /\ troubled = FALSE
               /\ expiries = MaxExpiries

\* refreshPromise ??= refreshAccessToken(): who is denied waits for the renewal
\* that is running, or starts one.
\* Faulty variant: everybody starts one.
ownRenewal(r) == r
Renewal(r) == IF Refreshing = {} THEN r ELSE CHOOSE q \in Refreshing : TRUE

refreshAccessToken(r) ==
    LET q == Renewal(r)
    IN  /\ awaits' = [awaits EXCEPT ![r] = q]
        /\ refresh' = IF q # r THEN refresh
                      ELSE [refresh EXCEPT ![r] = [pc |-> IF stored = 0 THEN "failed" ELSE "sent",
                                                   token |-> stored]]
        /\ UNCHANGED <<access, stored, live, issued, troubled, expiries>>

\* r has seen how its renewal went.
Resume(r) == /\ awaits[r] \in Outcomes
             /\ awaits' = [awaits EXCEPT ![r] = NotWaiting]
             /\ UNCHANGED <<access, stored, live, issued, refresh, troubled, expiries>>

Becomes(r, pc, token) == refresh' = [refresh EXCEPT ![r] = [pc |-> pc, token |-> token]]

\* AuthService.refresh finds the token, or detects its reuse.
refreshRead(r) ==
    /\ refresh[r].pc = "sent"
    /\ IF refresh[r].token \in live
       THEN Becomes(r, "valid", refresh[r].token) /\ UNCHANGED live
       ELSE Becomes(r, "failed", 0) /\ live' = {}
    /\ UNCHANGED <<access, stored, issued, awaits, troubled, expiries>>

\* It revokes the token by id, whoever has meanwhile, and then creates the next pair.
revoke(r) ==
    /\ refresh[r].pc = "valid"
    /\ live' = live \ {refresh[r].token}
    /\ Becomes(r, "revoked", 0)
    /\ UNCHANGED <<access, stored, issued, awaits, troubled, expiries>>

createTokenPair(r) ==
    /\ refresh[r].pc = "revoked"
    /\ issued' = issued + 1
    /\ live' = live \cup {issued'}
    /\ Becomes(r, "answer", issued')
    /\ UNCHANGED <<access, stored, awaits, troubled, expiries>>

\* The request or its answer is lost, or the server fails.
refreshFails(r) ==
    /\ refresh[r].pc \in {"sent", "valid", "revoked", "answer"}
    /\ Becomes(r, "failed", 0)
    /\ troubled' = TRUE
    /\ UNCHANGED <<access, stored, live, issued, awaits, expiries>>

\* setStoredTokens writes the access token, then the refresh token.
storeAccess(r) ==
    /\ refresh[r].pc = "answer"
    /\ access' = "fresh"
    /\ Becomes(r, "storing", refresh[r].token)
    /\ UNCHANGED <<stored, live, issued, awaits, troubled, expiries>>

Settle(r, outcome) ==
    /\ refresh' = [refresh EXCEPT ![r] = NoRefresh]
    /\ awaits' = [q \in Requesters |-> IF awaits[q] = r THEN outcome ELSE awaits[q]]
    /\ UNCHANGED <<live, issued, troubled, expiries>>

storeRefresh(r) == /\ refresh[r].pc = "storing"
                   /\ stored' = refresh[r].token
                   /\ Settle(r, "renewed")
                   /\ UNCHANGED access

clearStoredTokens(r) == /\ refresh[r].pc = "failed"
                        /\ access' = "none" /\ stored' = 0
                        /\ Settle(r, "signed out")

RefreshStep(r) == \/ refreshRead(r) \/ revoke(r) \/ createTokenPair(r)
                  \/ storeAccess(r) \/ storeRefresh(r) \/ clearStoredTokens(r)

AccessExpires == /\ access = "fresh" /\ expiries > 0
                 /\ access' = "expired"
                 /\ expiries' = expiries - 1
                 /\ UNCHANGED <<stored, live, issued, refresh, awaits, troubled>>

\* The user signs in again: a new family, numbered anew as no token of the last
\* one is held any more.  (A renewal that found no token may still clear this one.)
SignIn == /\ stored = 0
          /\ access' = "fresh" /\ stored' = 1 /\ live' = {1} /\ issued' = 1
          /\ UNCHANGED <<refresh, awaits, troubled, expiries>>

\* The application is killed: what was stored is kept.
ForgetRequests == /\ refresh' = [r \in Requesters |-> NoRefresh]
                  /\ awaits' = [r \in Requesters |-> NotWaiting]
                  /\ troubled' = (troubled \/ Refreshing # {})
                  /\ UNCHANGED <<access, stored, live, issued, expiries>>

SessionTypeOK == /\ access \in Access
                 /\ issued \in Nat /\ stored \in 0 .. issued /\ live \subseteq 1 .. issued
                 /\ refresh \in [Requesters -> Refreshes]
                 /\ awaits \in [Requesters -> Requesters \cup Outcomes \cup {NotWaiting}]
                 /\ troubled \in BOOLEAN /\ expiries \in 0 .. MaxExpiries

\* A device that has had every renewal answered is never signed out by renewals
\* of its own, however its requests overlap: it holds, or is about to be given, a
\* refresh token that is not revoked (requests denied together share a renewal,
\* else the second would present the token the first has spent, and revoke the
\* family by it).
SessionKept ==
    ~troubled =>
        \/ stored \in live
        \/ \E r \in Refreshing : \/ refresh[r].pc = "revoked"
                                 \/ refresh[r].token \in live
=============================================================================
