------------------------- MODULE OfflineQueueProofs -------------------------
(***************************************************************************)
(* Theorems about OfflineQueue, for any items, passes and bounds.          *)
(***************************************************************************)
EXTENDS OfflineQueue, FiniteSetTheorems, TLAPS

(***************************************************************************)
(* Lists of items.                                                         *)
(***************************************************************************)
\* A list is a sequence of items that names none twice: it cannot be longer than
\* there are items.
LEMMA ListsAre ==
    ASSUME NEW s
    PROVE  s \in Lists <=> s \in Seq(Items) /\ IsInjective(s)
<1>1. ASSUME s \in Lists PROVE s \in Seq(Items) /\ IsInjective(s)
  <2>1. PICK n \in 0 .. Cardinality(Items) : s \in [1 .. n -> Items]
    BY <1>1 DEF Lists
  <2>2. Cardinality(Items) \in Nat
    BY QueueAssumption, FS_CardinalityType
  <2>3. n \in Nat
    BY <2>2
  <2> QED
    BY <1>1, <2>1, <2>3 DEF Lists
<1>2. ASSUME s \in Seq(Items), IsInjective(s) PROVE s \in Lists
  <2>1. s \in [1 .. Len(s) -> Items] /\ Len(s) \in Nat
    BY <1>2
  <2>2. s \in Injection(1 .. Len(s), Items)
    BY <1>2, <2>1 DEF Injection
  <2>3. Cardinality(1 .. Len(s)) <= Cardinality(Items)
    BY <2>2, QueueAssumption, FS_Injection
  <2>4. Cardinality(1 .. Len(s)) = Len(s)
    <3>1. Cardinality(1 .. Len(s)) = IF 1 > Len(s) THEN 0 ELSE Len(s) - 1 + 1
      BY <2>1, FS_Interval
    <3> QED
      BY <2>1, <3>1
  <2>5. Cardinality(Items) \in Nat
    BY QueueAssumption, FS_CardinalityType
  <2>6. Len(s) \in 0 .. Cardinality(Items)
    BY <2>1, <2>3, <2>4, <2>5
  <2> QED
    BY <1>2, <2>1, <2>6 DEF Lists
<1> QED
  BY <1>1, <1>2

LEMMA ListItems ==
    ASSUME NEW s \in Lists
    PROVE  /\ ToSet(s) \subseteq Items
           /\ s = <<>> <=> ToSet(s) = {}
<1>1. s \in Seq(Items)
  BY ListsAre
<1>2. ToSet(s) = {s[k] : k \in 1 .. Len(s)}
  BY <1>1 DEF ToSet
<1>3. s # <<>> => s[1] \in ToSet(s)
  BY <1>1, <1>2
<1>4. s = <<>> => ToSet(s) = {}
  BY <1>1, <1>2
<1>5. \A k \in 1 .. Len(s) : s[k] \in Items
  BY <1>1
<1>6. ToSet(s) \subseteq Items
  BY <1>2, <1>5
<1> QED
  BY <1>3, <1>4, <1>6

LEMMA EmptyList == <<>> \in Lists /\ ToSet(<<>>) = {}
<1>1. <<>> \in Seq(Items) /\ DOMAIN <<>> = {}
  OBVIOUS
<1>2. IsInjective(<<>>)
  BY <1>1 DEF IsInjective
<1>3. <<>> \in Lists
  BY <1>1, <1>2, ListsAre
<1> QED
  BY <1>3, ListItems

LEMMA AppendItem ==
    ASSUME NEW s \in Lists, NEW i \in Items, i \notin ToSet(s)
    PROVE  Append(s, i) \in Lists /\ ToSet(Append(s, i)) = ToSet(s) \cup {i}
<1> DEFINE t == Append(s, i)
<1>1. s \in Seq(Items) /\ IsInjective(s)
  BY ListsAre
<1>2. /\ t \in Seq(Items) /\ Len(t) = Len(s) + 1 /\ t[Len(s) + 1] = i
      /\ \A k \in 1 .. Len(s) : t[k] = s[k]
  BY <1>1
<1>3. DOMAIN s = 1 .. Len(s) /\ DOMAIN t = 1 .. Len(s) + 1 /\ Len(s) \in Nat
  BY <1>1, <1>2
<1> HIDE DEF t
<1>4. \A k \in 1 .. Len(s) : s[k] \in ToSet(s)
  BY <1>3 DEF ToSet
<1>5. IsInjective(t)
  <2> SUFFICES ASSUME NEW a \in 1 .. Len(s) + 1, NEW b \in 1 .. Len(s) + 1, t[a] = t[b] PROVE a = b
    BY <1>3 DEF IsInjective
  <2> QED
    BY <1>1, <1>2, <1>3, <1>4 DEF IsInjective
<1>6. ToSet(t) = ToSet(s) \cup {i}
  BY <1>2, <1>3 DEF ToSet
<1> QED
  BY <1>2, <1>5, <1>6, ListsAre DEF t

LEMMA HeadAndTail ==
    ASSUME NEW s \in Lists, s # <<>>
    PROVE  /\ Head(s) \in Items /\ Tail(s) \in Lists
           /\ ToSet(s) = {Head(s)} \cup ToSet(Tail(s)) /\ Head(s) \notin ToSet(Tail(s))
<1> DEFINE t == Tail(s)
<1>1. s \in Seq(Items) /\ IsInjective(s)
  BY ListsAre
<1>2. /\ Len(s) \in Nat \ {0} /\ Head(s) = s[1] /\ Head(s) \in Items
      /\ t \in Seq(Items) /\ Len(t) = Len(s) - 1
      /\ \A k \in 1 .. Len(s) - 1 : t[k] = s[k + 1]
  BY <1>1
<1>3. DOMAIN s = 1 .. Len(s) /\ DOMAIN t = 1 .. Len(s) - 1
  BY <1>1, <1>2
<1> HIDE DEF t
<1>4. IsInjective(t)
  <2> SUFFICES ASSUME NEW a \in 1 .. Len(s) - 1, NEW b \in 1 .. Len(s) - 1, t[a] = t[b] PROVE a = b
    BY <1>3 DEF IsInjective
  <2>1. s[a + 1] = s[b + 1] /\ a + 1 \in 1 .. Len(s) /\ b + 1 \in 1 .. Len(s)
    BY <1>2
  <2> QED
    BY <1>1, <1>3, <2>1 DEF IsInjective
<1>5. s[1] \notin ToSet(t)
  <2> SUFFICES ASSUME NEW k \in 1 .. Len(s) - 1, t[k] = s[1] PROVE FALSE
    BY <1>3 DEF ToSet
  <2>1. s[k + 1] = s[1] /\ k + 1 \in 1 .. Len(s) /\ 1 \in 1 .. Len(s) /\ k + 1 # 1
    BY <1>2
  <2> QED
    BY <1>1, <1>3, <2>1 DEF IsInjective
<1>6. ToSet(s) = {s[1]} \cup ToSet(t)
  <2>1. ASSUME NEW k \in 1 .. Len(s) PROVE s[k] \in {s[1]} \cup ToSet(t)
    <3>1. CASE k # 1
      <4>1. k - 1 \in 1 .. Len(s) - 1 /\ t[k - 1] = s[k]
        BY <1>2, <3>1
      <4> QED
        BY <1>3, <4>1 DEF ToSet
    <3> QED
      BY <3>1
  <2>2. ASSUME NEW k \in 1 .. Len(s) - 1 PROVE t[k] \in ToSet(s)
    <3>1. k + 1 \in 1 .. Len(s) /\ t[k] = s[k + 1]
      BY <1>2
    <3> QED
      BY <1>3, <3>1 DEF ToSet
  <2>3. 1 \in 1 .. Len(s)
    BY <1>2
  <2> QED
    BY <1>3, <2>1, <2>2, <2>3 DEF ToSet
<1> QED
  BY <1>2, <1>4, <1>5, <1>6, ListsAre DEF t

LEMMA Concatenation ==
    ASSUME NEW s \in Lists, NEW t \in Lists, ToSet(s) \cap ToSet(t) = {}
    PROVE  s \o t \in Lists /\ ToSet(s \o t) = ToSet(s) \cup ToSet(t)
<1> DEFINE u == s \o t
<1>1. s \in Seq(Items) /\ IsInjective(s) /\ t \in Seq(Items) /\ IsInjective(t)
  BY ListsAre
<1>2. /\ u \in Seq(Items) /\ Len(u) = Len(s) + Len(t)
      /\ \A k \in 1 .. Len(s) : u[k] = s[k]
      /\ \A k \in 1 .. Len(t) : u[Len(s) + k] = t[k]
  BY <1>1
<1>3. /\ DOMAIN s = 1 .. Len(s) /\ DOMAIN t = 1 .. Len(t) /\ DOMAIN u = 1 .. Len(s) + Len(t)
      /\ Len(s) \in Nat /\ Len(t) \in Nat
  BY <1>1, <1>2
<1> HIDE DEF u
<1>4. \A k \in 1 .. Len(s) : s[k] \in ToSet(s)
  BY <1>3 DEF ToSet
<1>5. \A k \in 1 .. Len(t) : t[k] \in ToSet(t)
  BY <1>3 DEF ToSet
<1>6. ASSUME NEW k \in 1 .. Len(s) + Len(t)
      PROVE  \/ k \in 1 .. Len(s) /\ u[k] = s[k]
             \/ k - Len(s) \in 1 .. Len(t) /\ u[k] = t[k - Len(s)]
  <2>1. CASE k <= Len(s)
    BY <1>2, <1>3, <2>1
  <2>2. CASE k > Len(s)
    <3>1. k - Len(s) \in 1 .. Len(t) /\ Len(s) + (k - Len(s)) = k
      BY <1>3, <2>2
    <3> QED
      BY <1>2, <3>1
  <2> QED
    BY <1>3, <2>1, <2>2
<1>7. IsInjective(u)
  <2> SUFFICES ASSUME NEW a \in 1 .. Len(s) + Len(t), NEW b \in 1 .. Len(s) + Len(t), u[a] = u[b]
               PROVE  a = b
    BY <1>3 DEF IsInjective
  <2>1. CASE a \in 1 .. Len(s) /\ u[a] = s[a] /\ b \in 1 .. Len(s) /\ u[b] = s[b]
    BY <1>1, <1>3, <2>1 DEF IsInjective
  <2>2. CASE /\ a - Len(s) \in 1 .. Len(t) /\ u[a] = t[a - Len(s)]
             /\ b - Len(s) \in 1 .. Len(t) /\ u[b] = t[b - Len(s)]
    <3>1. a - Len(s) = b - Len(s)
      BY <1>1, <1>3, <2>2 DEF IsInjective
    <3> QED
      BY <1>3, <3>1
  <2> QED
    BY <1>4, <1>5, <1>6, <2>1, <2>2
<1>8. ToSet(u) = ToSet(s) \cup ToSet(t)
  <2>1. ToSet(u) \subseteq ToSet(s) \cup ToSet(t)
    <3>1. \A k \in 1 .. Len(s) + Len(t) : u[k] \in ToSet(s) \cup ToSet(t)
      BY <1>4, <1>5, <1>6
    <3> QED
      BY <1>3, <3>1 DEF ToSet
  <2>2. ToSet(s) \subseteq ToSet(u)
    BY <1>2, <1>3 DEF ToSet
  <2>3. ASSUME NEW k \in 1 .. Len(t) PROVE t[k] \in ToSet(u)
    <3>1. Len(s) + k \in 1 .. Len(s) + Len(t) /\ u[Len(s) + k] = t[k]
      BY <1>2, <1>3
    <3> QED
      BY <1>3, <3>1 DEF ToSet
  <2>4. ToSet(t) \subseteq ToSet(u)
    BY <1>3, <2>3 DEF ToSet
  <2> QED
    BY <2>1, <2>2, <2>4
<1> QED
  BY <1>2, <1>7, <1>8, ListsAre DEF u

(***************************************************************************)
(* The session: one renewal at a time, whose requester waits for it, and   *)
(* while every renewal is answered a refresh token that is good.           *)
(***************************************************************************)
Waits(r) == pass[r].pc = "await"

RenewalKnown(r) ==
    LET s == refresh[r]
    IN  /\ s.pc # "idle" => Waits(r) /\ awaits[r] = r
        /\ s.pc \in {"idle", "revoked", "failed"} => s.token = 0
        /\ s.pc \in {"sent", "valid"} => s.token = stored
        /\ s.pc \in {"answer", "storing"} => s.token # 0
        /\ s.pc \in {"sent", "valid", "revoked", "answer", "storing"} => stored # 0

OneRenewal == \A q, r \in Refreshing : q = r

SessionInv == /\ SessionTypeOK
              /\ OneRenewal
              /\ \A r \in Passes : /\ RenewalKnown(r)
                                   /\ ~Waits(r) => awaits[r] = NotWaiting

\* What a renewal holds to while every one before was answered.
RenewalTrue(r) == /\ refresh[r].pc # "failed"
                  /\ refresh[r].pc \in {"sent", "valid", "answer", "storing"} => refresh[r].token \in live

SessionTrueInv == ~troubled => /\ stored # 0
                               /\ Refreshing = {} => stored \in live
                               /\ \A r \in Passes : RenewalTrue(r)

\* What the steps of passes and taps do to the session.
SameWaits == \A r \in Passes : Waits(r)' <=> Waits(r)

Denied(r) == /\ refreshAccessToken(r) /\ ~Waits(r)
             /\ \A q \in Passes : Waits(q)' <=> (q = r \/ Waits(q))
Resumed(r) == /\ Resume(r) /\ Waits(r)
              /\ \A q \in Passes : Waits(q)' <=> (q # r /\ Waits(q))
Forgotten == ForgetRequests /\ \A q \in Passes : ~Waits(q)'

SessionMoves ==
    \/ SameWaits /\ UNCHANGED sessionVars
    \/ SameWaits /\ (AccessExpires \/ SignIn)
    \/ \E r \in Passes : /\ SameWaits
                         /\ RefreshStep(r) \/ refreshFails(r)
    \/ \E r \in Passes : Denied(r) \/ Resumed(r)
    \/ Forgotten

Renewing == {"sent", "valid", "revoked", "answer", "storing", "failed"}

LEMMA RenewalFields ==
    ASSUME SessionTypeOK, NEW r \in Passes
    PROVE  /\ refresh[r] = [pc |-> refresh[r].pc, token |-> refresh[r].token]
           /\ refresh[r].pc \in {"idle"} \cup Renewing
           /\ refresh[r].token \in 0 .. issued /\ refresh[r].token \in Nat
<1>1. refresh[r] \in Refreshes /\ issued \in Nat
  BY DEF SessionTypeOK, Passes
<1>2. refresh[r].pc \in {"idle"} \cup Renewing
  BY <1>1 DEF Refreshes, Renewing
<1>3. refresh[r] = [pc |-> refresh[r].pc, token |-> refresh[r].token] /\ refresh[r].token \in 0 .. issued
  BY <1>1 DEF Refreshes
<1> QED
  BY <1>1, <1>2, <1>3

\* A step of the renewal under way, to a place where it knows what it should.
LEMMA RenewalGoesOn ==
    ASSUME SessionInv, SameWaits, NEW r \in Passes, refresh[r].pc # "idle",
           NEW c \in Renewing, NEW t \in 0 .. issued', Becomes(r, c, t),
           awaits' = awaits, stored' = stored, troubled' \in BOOLEAN, expiries' = expiries,
           access' \in Access, live' \subseteq 1 .. issued', issued' \in Nat, issued' >= issued,
           c \in {"revoked", "failed"} => t = 0,
           c \in {"sent", "valid"} => t = stored,
           c \in {"answer", "storing"} => t # 0,
           c # "failed" => stored # 0
    PROVE  /\ SessionInv'
           /\ Refreshing' = {r} /\ Refreshing = {r}
           /\ refresh'[r] = [pc |-> c, token |-> t]
<1>1. /\ refresh \in [Passes -> Refreshes] /\ stored \in 0 .. issued /\ issued \in Nat
      /\ expiries \in 0 .. MaxExpiries
      /\ awaits \in [Requesters -> Requesters \cup Outcomes \cup {NotWaiting}]
  BY DEF SessionInv, SessionTypeOK, Passes
<1>2. refresh' = [refresh EXCEPT ![r] = [pc |-> c, token |-> t]]
  BY DEF Becomes
<1>3. \A q \in Passes : refresh'[q] = IF q = r THEN [pc |-> c, token |-> t] ELSE refresh[q]
  BY <1>1, <1>2
<1>4. \A q \in Passes : q # r => refresh[q].pc = "idle"
  BY DEF SessionInv, OneRenewal, Refreshing, Passes
<1>5. Refreshing' = {r} /\ Refreshing = {r}
  <2>1. \A q \in Passes : refresh'[q].pc # "idle" <=> q = r
    BY <1>3, <1>4 DEF Renewing
  <2>2. Refreshing' = {q \in Passes : refresh'[q].pc # "idle"}
    BY DEF Refreshing, Passes
  <2>3. Refreshing = {q \in Passes : refresh[q].pc # "idle"}
    BY DEF Refreshing, Passes
  <2> QED
    BY <1>4, <2>1, <2>2, <2>3
<1>6. \A q \in Passes : refresh'[q] \in Refreshes'
  <2>1. [pc |-> c, token |-> t] \in Refreshes'
    BY DEF Refreshes, Renewing
  <2>2. \A q \in Passes : refresh[q] \in Refreshes'
    <3> TAKE q \in Passes
    <3>1. /\ refresh[q] = [pc |-> refresh[q].pc, token |-> refresh[q].token]
          /\ refresh[q].pc \in {"idle"} \cup Renewing /\ refresh[q].token \in 0 .. issued
      BY RenewalFields DEF SessionInv
    <3>2. refresh[q].token \in 0 .. issued'
      BY <1>1, <3>1
    <3> QED
      BY <3>1, <3>2 DEF Refreshes, Renewing
  <2> QED
    BY <1>3, <2>1, <2>2
<1>7. refresh' \in [Passes -> Refreshes']
  BY <1>1, <1>2, <1>6
<1>8. stored' \in 0 .. issued'
  BY <1>1
<1>9. SessionTypeOK'
  BY <1>1, <1>7, <1>8 DEF SessionTypeOK, Passes
<1>10. OneRenewal'
  BY <1>5 DEF OneRenewal
<1>11. ASSUME NEW q \in Passes PROVE RenewalKnown(q)' /\ (~Waits(q)' => awaits'[q] = NotWaiting)
  <2>1. (Waits(q)' <=> Waits(q)) /\ awaits'[q] = awaits[q] /\ RenewalKnown(q)
        /\ (~Waits(q) => awaits[q] = NotWaiting)
    BY DEF SameWaits, SessionInv
  <2>2. CASE q = r
    <3>1. Waits(r) /\ awaits[r] = r
      BY <2>1, <2>2 DEF RenewalKnown
    <3>2. refresh'[r].pc = c /\ refresh'[r].token = t
      BY <1>3
    <3> QED
      BY <2>1, <2>2, <3>1, <3>2 DEF RenewalKnown, Renewing
  <2>3. CASE q # r
    <3>1. refresh'[q] = refresh[q] /\ refresh[q].pc = "idle"
      BY <1>3, <1>4, <2>3
    <3> QED
      BY <2>1, <3>1 DEF RenewalKnown
  <2> QED
    BY <2>2, <2>3
<1>12. SessionInv'
  BY <1>9, <1>10, <1>11 DEF SessionInv
<1> QED
  BY <1>3, <1>5, <1>12

\* What the steps of a renewal under way have in common.
LEMMA SessionTyped ==
    ASSUME SessionInv
    PROVE  /\ refresh \in [Passes -> Refreshes]
           /\ awaits \in [Passes -> Passes \cup Outcomes \cup {NotWaiting}]
           /\ stored \in 0 .. issued /\ issued \in Nat /\ stored \in Nat
           /\ live \subseteq 1 .. issued /\ access \in Access
           /\ expiries \in 0 .. MaxExpiries /\ troubled \in BOOLEAN
           /\ \A r \in Passes : RenewalKnown(r) /\ (~Waits(r) => awaits[r] = NotWaiting)
           /\ \A r \in Passes : r \notin Outcomes /\ r # NotWaiting
<1>1. stored \in 0 .. issued /\ issued \in Nat
  BY DEF SessionInv, SessionTypeOK
<1>2. stored \in Nat
  BY <1>1
<1>3. \A r \in Passes : r \notin Outcomes /\ r # NotWaiting
  BY SessionAssumption DEF Passes
<1> QED
  BY <1>1, <1>2, <1>3 DEF SessionInv, SessionTypeOK, Passes

\* A renewal stays true, and with it the session.
LEMMA RenewalStaysTrue ==
    ASSUME SessionInv, SessionTrueInv, NEW r \in Passes, NEW c \in Renewing, NEW t,
           Refreshing' = {r}, refresh' \in [Passes -> Refreshes'],
           refresh'[r] = [pc |-> c, token |-> t],
           ~troubled' => ~troubled /\ c # "failed",
           stored' = stored,
           ~troubled' /\ c \in {"sent", "valid", "answer", "storing"} => t \in live'
    PROVE  SessionTrueInv'
<1> SUFFICES ASSUME ~troubled' PROVE /\ stored' # 0 /\ Refreshing' # {}
                                     /\ \A q \in Passes : RenewalTrue(q)'
  BY DEF SessionTrueInv
<1>1. stored # 0
  BY DEF SessionTrueInv
<1>2. refresh'[r].pc = c /\ refresh'[r].token = t
  OBVIOUS
<1>3. RenewalTrue(r)'
  BY <1>2 DEF RenewalTrue
<1>4. ASSUME NEW q \in Passes, q # r PROVE RenewalTrue(q)'
  <2>1. refresh'[q].pc = "idle"
    BY <1>4 DEF Refreshing, Passes
  <2> QED
    BY <2>1 DEF RenewalTrue
<1> QED
  BY <1>1, <1>3, <1>4

LEMMA ServerRenews ==
    ASSUME SessionInv, SessionTrueInv, SameWaits, NEW r \in Passes,
           refreshRead(r) \/ revoke(r) \/ createTokenPair(r) \/ refreshFails(r) \/ storeAccess(r)
    PROVE  SessionInv' /\ SessionTrueInv'
<1>0. /\ refresh \in [Passes -> Refreshes] /\ stored \in 0 .. issued /\ issued \in Nat /\ stored \in Nat
      /\ live \subseteq 1 .. issued /\ access \in Access /\ troubled \in BOOLEAN
      /\ RenewalKnown(r)
  BY SessionTyped
<1>1. refresh[r].token \in 0 .. issued /\ refresh[r].token \in Nat
  BY RenewalFields DEF SessionInv
<1>2. ~troubled => RenewalTrue(r)
  BY DEF SessionTrueInv
<1>3. ASSUME NEW c \in Renewing, NEW t \in 0 .. issued', Becomes(r, c, t), refresh[r].pc # "idle",
             awaits' = awaits, stored' = stored, troubled' \in BOOLEAN, expiries' = expiries,
             access' \in Access, live' \subseteq 1 .. issued', issued' \in Nat, issued' >= issued,
             c \in {"revoked", "failed"} => t = 0,
             c \in {"sent", "valid"} => t = stored,
             c \in {"answer", "storing"} => t # 0,
             c # "failed" => stored # 0,
             ~troubled' => ~troubled /\ c # "failed",
             ~troubled' /\ c \in {"sent", "valid", "answer", "storing"} => t \in live'
      PROVE  SessionInv' /\ SessionTrueInv'
  <2>1. SessionInv' /\ Refreshing' = {r} /\ refresh'[r] = [pc |-> c, token |-> t]
    BY <1>3, RenewalGoesOn
  <2>2. refresh' \in [Passes -> Refreshes']
    BY <2>1 DEF SessionInv, SessionTypeOK, Passes
  <2>3. SessionTrueInv'
    BY <1>3, <2>1, <2>2, RenewalStaysTrue
  <2> QED
    BY <2>1, <2>3
<1>4. CASE refreshRead(r)
  <2>1. refresh[r].pc = "sent" /\ UNCHANGED <<access, stored, issued, awaits, troubled, expiries>>
    BY <1>4 DEF refreshRead
  <2>2. refresh[r].token = stored /\ stored # 0
    BY <1>0, <2>1 DEF RenewalKnown
  <2>3. CASE refresh[r].token \in live
    <3>1. Becomes(r, "valid", refresh[r].token) /\ live' = live
      BY <1>4, <2>3 DEF refreshRead
    <3>2. issued' >= issued
      BY <1>0, <2>1
    <3> QED
      BY <1>0, <1>1, <1>3, <2>1, <2>2, <2>3, <3>1, <3>2 DEF Renewing
  <2>4. CASE refresh[r].token \notin live
    <3>1. Becomes(r, "failed", 0) /\ live' = {} /\ 0 \in 0 .. issued' /\ issued' >= issued
      BY <1>0, <1>4, <2>1, <2>4 DEF refreshRead
    <3>2. troubled
      BY <1>2, <2>1, <2>4 DEF RenewalTrue
    <3> QED
      BY <1>0, <1>3, <2>1, <3>1, <3>2 DEF Renewing
  <2> QED
    BY <2>3, <2>4
<1>5. CASE revoke(r)
  <2>1. /\ refresh[r].pc = "valid" /\ UNCHANGED <<access, stored, issued, awaits, troubled, expiries>>
        /\ live' = live \ {refresh[r].token} /\ Becomes(r, "revoked", 0)
    BY <1>5 DEF revoke
  <2>2. stored # 0 /\ 0 \in 0 .. issued' /\ issued' >= issued
    BY <1>0, <2>1 DEF RenewalKnown
  <2>3. live' \subseteq 1 .. issued'
    BY <1>0, <2>1
  <2> QED
    BY <1>0, <1>3, <2>1, <2>2, <2>3 DEF Renewing
<1>6. CASE createTokenPair(r)
  <2>1. /\ refresh[r].pc = "revoked" /\ UNCHANGED <<access, stored, awaits, troubled, expiries>>
        /\ issued' = issued + 1 /\ live' = live \cup {issued'} /\ Becomes(r, "answer", issued')
    BY <1>6 DEF createTokenPair
  <2>2. /\ stored # 0 /\ issued' \in 0 .. issued' /\ issued' # 0 /\ issued' >= issued /\ issued' \in Nat
        /\ live' \subseteq 1 .. issued'
    BY <1>0, <2>1 DEF RenewalKnown
  <2>3. issued' \in live'
    BY <2>1
  <2> QED
    BY <1>0, <1>3, <2>1, <2>2, <2>3 DEF Renewing
<1>7. CASE refreshFails(r)
  <2>1. /\ refresh[r].pc # "idle" /\ UNCHANGED <<access, stored, live, issued, awaits, expiries>>
        /\ troubled' = TRUE /\ Becomes(r, "failed", 0)
    BY <1>7 DEF refreshFails
  <2>2. 0 \in 0 .. issued' /\ issued' >= issued
    BY <1>0, <2>1
  <2> QED
    BY <1>0, <1>3, <2>1, <2>2 DEF Renewing
<1>8. CASE storeAccess(r)
  <2>1. /\ refresh[r].pc = "answer" /\ UNCHANGED <<stored, live, issued, awaits, troubled, expiries>>
        /\ access' = "fresh" /\ Becomes(r, "storing", refresh[r].token)
    BY <1>8 DEF storeAccess
  <2>2. /\ refresh[r].token # 0 /\ stored # 0 /\ issued' >= issued /\ refresh[r].token \in 0 .. issued'
        /\ access' \in Access
    BY <1>0, <1>1, <2>1 DEF RenewalKnown, Access
  <2>3. ~troubled => refresh[r].token \in live'
    BY <1>2, <2>1 DEF RenewalTrue
  <2> QED
    BY <1>0, <1>3, <2>1, <2>2, <2>3 DEF Renewing
<1> QED
  BY <1>4, <1>5, <1>6, <1>7, <1>8

\* The renewal is over, and whoever waited for it knows how it went.
LEMMA RenewalEnds ==
    ASSUME SessionInv, SessionTrueInv, SameWaits, NEW r \in Passes,
           storeRefresh(r) \/ clearStoredTokens(r)
    PROVE  SessionInv' /\ SessionTrueInv'
<1>0. /\ refresh \in [Passes -> Refreshes] /\ stored \in 0 .. issued /\ issued \in Nat /\ stored \in Nat
      /\ awaits \in [Passes -> Passes \cup Outcomes \cup {NotWaiting}]
      /\ live \subseteq 1 .. issued /\ access \in Access /\ troubled \in BOOLEAN
      /\ expiries \in 0 .. MaxExpiries
      /\ \A q \in Passes : RenewalKnown(q) /\ (~Waits(q) => awaits[q] = NotWaiting)
      /\ r # NotWaiting
  BY SessionTyped
<1>1. refresh[r].token \in 0 .. issued /\ refresh[r].token \in Nat
  BY RenewalFields DEF SessionInv
<1>2. PICK outcome \in Outcomes : Settle(r, outcome)
  BY DEF storeRefresh, clearStoredTokens, Outcomes
<1>3. refresh[r].pc # "idle"
  BY DEF storeRefresh, clearStoredTokens
<1>4. \A q \in Passes : refresh'[q] = NoRefresh
  <2>1. \A q \in Passes : q # r => refresh[q].pc = "idle" /\ refresh[q].token = 0
    BY <1>0, <1>3 DEF SessionInv, OneRenewal, Refreshing, Passes, RenewalKnown
  <2>2. \A q \in Passes : refresh[q] = [pc |-> refresh[q].pc, token |-> refresh[q].token]
    BY RenewalFields DEF SessionInv
  <2>3. \A q \in Passes : q # r => refresh[q] = NoRefresh
    BY <2>1, <2>2 DEF NoRefresh
  <2> QED
    BY <1>0, <1>2, <2>3 DEF Settle
<1>5. /\ refresh' = [q \in Passes |-> refresh'[q]]
      /\ awaits' = [q \in Passes |-> IF awaits[q] = r THEN outcome ELSE awaits[q]]
      /\ UNCHANGED <<live, issued, troubled, expiries>>
  BY <1>0, <1>2 DEF Settle, Passes
<1>6. stored' \in 0 .. issued' /\ access' \in Access
  <2>1. issued' = issued /\ 0 \in 0 .. issued
    BY <1>0, <1>5
  <2>2. CASE storeRefresh(r)
    BY <1>0, <1>1, <2>1, <2>2 DEF storeRefresh
  <2>3. CASE clearStoredTokens(r)
    BY <2>1, <2>3 DEF clearStoredTokens, Access
  <2> QED
    BY <2>2, <2>3
<1>7. refresh' \in [Passes -> Refreshes']
  <2>1. NoRefresh \in Refreshes'
    BY <1>0, <1>5 DEF NoRefresh, Refreshes
  <2> QED
    BY <1>4, <1>5, <2>1
<1>8. SessionTypeOK'
  BY <1>0, <1>5, <1>6, <1>7 DEF SessionTypeOK, Passes
<1>9. Refreshing' = {}
  BY <1>4 DEF Refreshing, Passes, NoRefresh
<1>10. ASSUME NEW q \in Passes PROVE RenewalKnown(q)' /\ (~Waits(q)' => awaits'[q] = NotWaiting)
  <2>1. RenewalKnown(q)'
    BY <1>4 DEF RenewalKnown, NoRefresh
  <2>2. ~Waits(q)' => awaits'[q] = NotWaiting
    BY <1>0, <1>5 DEF SameWaits
  <2> QED
    BY <2>1, <2>2
<1>11. SessionInv'
  BY <1>8, <1>9, <1>10 DEF SessionInv, OneRenewal
<1>12. SessionTrueInv'
  <2> SUFFICES ASSUME ~troubled' PROVE SessionTrueInv'
    BY DEF SessionTrueInv
  <2>1. RenewalTrue(r)
    BY <1>5 DEF SessionTrueInv
  <2>2. storeRefresh(r)
    BY <2>1 DEF RenewalTrue, clearStoredTokens
  <2>3. stored' = refresh[r].token /\ stored' \in live' /\ stored' # 0
    BY <1>0, <1>5, <2>1, <2>2 DEF RenewalTrue, storeRefresh, RenewalKnown
  <2>4. \A q \in Passes : RenewalTrue(q)'
    BY <1>4 DEF RenewalTrue, NoRefresh
  <2> QED
    BY <2>3, <2>4 DEF SessionTrueInv
<1> QED
  BY <1>11, <1>12

LEMMA TokensChange ==
    ASSUME SessionInv, SessionTrueInv, SameWaits, AccessExpires \/ SignIn
    PROVE  SessionInv' /\ SessionTrueInv'
<1>0. /\ refresh \in [Passes -> Refreshes] /\ stored \in 0 .. issued /\ issued \in Nat
      /\ awaits \in [Passes -> Passes \cup Outcomes \cup {NotWaiting}]
      /\ live \subseteq 1 .. issued /\ access \in Access /\ troubled \in BOOLEAN
      /\ expiries \in 0 .. MaxExpiries
      /\ \A q \in Passes : RenewalKnown(q) /\ (~Waits(q) => awaits[q] = NotWaiting)
  BY SessionTyped
<1>1. UNCHANGED <<refresh, awaits, troubled>>
  BY DEF AccessExpires, SignIn
<1>2. OneRenewal'
  BY <1>1 DEF SessionInv, OneRenewal, Refreshing
<1>3. \A q \in Passes : ~Waits(q)' => awaits'[q] = NotWaiting
  BY <1>0, <1>1 DEF SameWaits
<1>4. \A q \in Passes : (Waits(q)' <=> Waits(q)) /\ refresh'[q] = refresh[q] /\ awaits'[q] = awaits[q]
  BY <1>1 DEF SameWaits
<1>5. CASE AccessExpires
  <2>1. /\ UNCHANGED <<stored, live, issued>> /\ access' \in Access
        /\ expiries' = expiries - 1 /\ expiries > 0
    BY <1>5 DEF AccessExpires, Access
  <2>2. expiries' \in 0 .. MaxExpiries
    BY <1>0, <2>1, SessionAssumption
  <2>3. Refreshes' = Refreshes
    BY <2>1 DEF Refreshes
  <2>4. SessionTypeOK'
    BY <1>0, <1>1, <2>1, <2>2, <2>3 DEF SessionTypeOK, Passes
  <2>5. \A q \in Passes : RenewalKnown(q)'
    BY <1>0, <1>4, <2>1 DEF RenewalKnown
  <2>6. SessionTrueInv'
    BY <1>1, <2>1 DEF SessionTrueInv, RenewalTrue, Refreshing
  <2> QED
    BY <1>2, <1>3, <2>4, <2>5, <2>6 DEF SessionInv
<1>6. CASE SignIn
  <2>1. /\ stored = 0 /\ stored' = 1 /\ live' = {1} /\ issued' = 1 /\ access' \in Access
        /\ expiries' = expiries
    BY <1>6 DEF SignIn, Access
  <2>2. \A q \in Passes : refresh[q].pc \in {"idle", "failed"} /\ refresh[q].token = 0
    <3> TAKE q \in Passes
    <3>1. refresh[q].pc \in {"idle"} \cup Renewing
      BY RenewalFields DEF SessionInv
    <3> QED
      BY <1>0, <2>1, <3>1 DEF RenewalKnown, Renewing
  <2>3. \A q \in Passes : refresh[q] \in Refreshes'
    <3> TAKE q \in Passes
    <3>1. refresh[q] = [pc |-> refresh[q].pc, token |-> refresh[q].token]
      BY RenewalFields DEF SessionInv
    <3>2. 0 \in 0 .. issued'
      BY <2>1
    <3> QED
      BY <2>2, <3>1, <3>2 DEF Refreshes
  <2>4. refresh' \in [Passes -> Refreshes']
    BY <1>0, <1>1, <2>3
  <2>5. stored' \in 0 .. issued' /\ issued' \in Nat /\ live' \subseteq 1 .. issued'
    BY <2>1
  <2>6. SessionTypeOK'
    BY <1>0, <1>1, <2>1, <2>4, <2>5 DEF SessionTypeOK, Passes
  <2>7. \A q \in Passes : RenewalKnown(q)'
    BY <1>0, <1>4, <2>1, <2>2 DEF RenewalKnown
  <2>8. troubled'
    BY <1>0, <1>1, <2>1 DEF SessionTrueInv
  <2> QED
    BY <1>2, <1>3, <2>6, <2>7, <2>8 DEF SessionInv, SessionTrueInv
<1> QED
  BY <1>5, <1>6

\* Who is denied shares the renewal that is running, or starts one with the token
\* that is stored.
LEMMA DeniedWaits ==
    ASSUME SessionInv, SessionTrueInv, NEW r \in Passes, Denied(r)
    PROVE  SessionInv' /\ SessionTrueInv'
<1>0. /\ refresh \in [Passes -> Refreshes] /\ stored \in 0 .. issued /\ issued \in Nat
      /\ awaits \in [Passes -> Passes \cup Outcomes \cup {NotWaiting}]
      /\ live \subseteq 1 .. issued /\ access \in Access /\ troubled \in BOOLEAN
      /\ expiries \in 0 .. MaxExpiries
      /\ \A q \in Passes : RenewalKnown(q) /\ (~Waits(q) => awaits[q] = NotWaiting)
  BY SessionTyped
<1>1. /\ ~Waits(r) /\ \A q \in Passes : Waits(q)' <=> (q = r \/ Waits(q))
      /\ UNCHANGED <<access, stored, live, issued, troubled, expiries>>
      /\ awaits' = [awaits EXCEPT ![r] = Renewal(r)]
  BY DEF Denied, refreshAccessToken
<1>2. refresh[r].pc = "idle"
  BY <1>0, <1>1 DEF RenewalKnown
<1>3. Refreshes' = Refreshes
  BY <1>1 DEF Refreshes
<1>4. \A q \in Passes : q # r => awaits'[q] = awaits[q] /\ (Waits(q)' <=> Waits(q))
  BY <1>0, <1>1
<1>5. CASE Refreshing = {}
  <2>1. Renewal(r) = r
    BY <1>5 DEF Renewal
  <2> DEFINE c == IF stored = 0 THEN "failed" ELSE "sent"
  <2>2. refresh' = [refresh EXCEPT ![r] = [pc |-> c, token |-> stored]] /\ awaits'[r] = r
    BY <1>0, <1>1, <2>1 DEF Denied, refreshAccessToken
  <2>3. c \in {"failed", "sent"} /\ (c = "failed" <=> stored = 0)
    OBVIOUS
  <2> HIDE DEF c
  <2>4. refresh'[r].pc = c /\ refresh'[r].token = stored
    BY <1>0, <2>2
  <2>5. \A q \in Passes : q # r => refresh'[q] = refresh[q] /\ refresh[q].pc = "idle"
    BY <1>0, <1>5, <2>2 DEF Refreshing, Passes
  <2>6. [pc |-> c, token |-> stored] \in Refreshes
    BY <1>0, <2>3 DEF Refreshes
  <2>7. refresh' \in [Passes -> Refreshes]
    BY <1>0, <2>2, <2>6
  <2>8. awaits' \in [Passes -> Passes \cup Outcomes \cup {NotWaiting}]
    BY <1>0, <1>1, <2>1
  <2>9. SessionTypeOK'
    BY <1>0, <1>1, <1>3, <2>7, <2>8 DEF SessionTypeOK, Passes
  <2>10. Refreshing' \subseteq {r} /\ r \in Refreshing'
    BY <2>3, <2>4, <2>5 DEF Refreshing, Passes
  <2>11. OneRenewal'
    BY <2>10 DEF OneRenewal
  <2>12. ASSUME NEW q \in Passes PROVE RenewalKnown(q)' /\ (~Waits(q)' => awaits'[q] = NotWaiting)
    <3>1. CASE q = r
      BY <1>1, <2>2, <2>3, <2>4, <3>1 DEF RenewalKnown
    <3>2. CASE q # r
      BY <1>0, <1>1, <1>4, <2>5, <3>2 DEF RenewalKnown
    <3> QED
      BY <3>1, <3>2
  <2>13. SessionInv'
    BY <2>9, <2>11, <2>12 DEF SessionInv
  <2>14. SessionTrueInv'
    <3> SUFFICES ASSUME ~troubled' PROVE SessionTrueInv'
      BY DEF SessionTrueInv
    <3>1. stored # 0 /\ stored \in live
      BY <1>1, <1>5 DEF SessionTrueInv
    <3>2. RenewalTrue(r)'
      BY <1>1, <2>3, <2>4, <3>1 DEF RenewalTrue
    <3>3. ASSUME NEW q \in Passes, q # r PROVE RenewalTrue(q)'
      BY <2>5, <3>3 DEF RenewalTrue
    <3> QED
      BY <1>1, <2>10, <3>1, <3>2, <3>3 DEF SessionTrueInv
  <2> QED
    BY <2>13, <2>14
<1>6. CASE Refreshing # {}
  <2>1. Renewal(r) \in Refreshing
    BY <1>6 DEF Renewal
  <2>2. Renewal(r) \in Passes /\ Renewal(r) # r
    BY <1>2, <2>1 DEF Refreshing, Passes
  <2>3. refresh' = refresh
    BY <2>2 DEF Denied, refreshAccessToken
  <2>4. awaits' \in [Passes -> Passes \cup Outcomes \cup {NotWaiting}]
    BY <1>0, <1>1, <2>2
  <2>5. SessionTypeOK'
    BY <1>0, <1>1, <1>3, <2>3, <2>4 DEF SessionTypeOK, Passes
  <2>6. OneRenewal'
    BY <2>3 DEF SessionInv, OneRenewal, Refreshing
  <2>7. ASSUME NEW q \in Passes PROVE RenewalKnown(q)' /\ (~Waits(q)' => awaits'[q] = NotWaiting)
    <3>1. CASE q = r
      BY <1>0, <1>1, <1>2, <2>3, <3>1 DEF RenewalKnown
    <3>2. CASE q # r
      BY <1>0, <1>1, <1>4, <2>3, <3>2 DEF RenewalKnown
    <3> QED
      BY <3>1, <3>2
  <2>8. SessionTrueInv'
    BY <1>1, <2>3 DEF SessionTrueInv, RenewalTrue, Refreshing
  <2> QED
    BY <2>5, <2>6, <2>7, <2>8 DEF SessionInv
<1> QED
  BY <1>5, <1>6

LEMMA ResumedGoesOn ==
    ASSUME SessionInv, SessionTrueInv, NEW r \in Passes, Resumed(r)
    PROVE  SessionInv' /\ SessionTrueInv'
<1>0. /\ refresh \in [Passes -> Refreshes] /\ stored \in 0 .. issued /\ issued \in Nat
      /\ awaits \in [Passes -> Passes \cup Outcomes \cup {NotWaiting}]
      /\ live \subseteq 1 .. issued /\ access \in Access /\ troubled \in BOOLEAN
      /\ expiries \in 0 .. MaxExpiries
      /\ \A q \in Passes : RenewalKnown(q) /\ (~Waits(q) => awaits[q] = NotWaiting)
      /\ r \notin Outcomes
  BY SessionTyped
<1>1. /\ awaits[r] \in Outcomes /\ awaits' = [awaits EXCEPT ![r] = NotWaiting]
      /\ \A q \in Passes : Waits(q)' <=> (q # r /\ Waits(q))
      /\ UNCHANGED <<access, stored, live, issued, refresh, troubled, expiries>>
  BY DEF Resumed, Resume
<1>2. refresh[r].pc = "idle"
  BY <1>0, <1>1 DEF RenewalKnown
<1>3. Refreshes' = Refreshes
  BY <1>1 DEF Refreshes
<1>4. awaits' \in [Passes -> Passes \cup Outcomes \cup {NotWaiting}]
  BY <1>0, <1>1
<1>5. SessionTypeOK'
  BY <1>0, <1>1, <1>3, <1>4 DEF SessionTypeOK, Passes
<1>6. OneRenewal'
  BY <1>1 DEF SessionInv, OneRenewal, Refreshing
<1>7. ASSUME NEW q \in Passes PROVE RenewalKnown(q)' /\ (~Waits(q)' => awaits'[q] = NotWaiting)
  <2>1. CASE q = r
    BY <1>0, <1>1, <1>2, <2>1 DEF RenewalKnown
  <2>2. CASE q # r
    <3>1. awaits'[q] = awaits[q] /\ (Waits(q)' <=> Waits(q))
      BY <1>0, <1>1, <2>2
    <3> QED
      BY <1>0, <1>1, <3>1 DEF RenewalKnown
  <2> QED
    BY <2>1, <2>2
<1>8. SessionTrueInv'
  BY <1>1 DEF SessionTrueInv, RenewalTrue, Refreshing
<1> QED
  BY <1>5, <1>6, <1>7, <1>8 DEF SessionInv

LEMMA ForgottenIsIdle ==
    ASSUME SessionInv, SessionTrueInv, Forgotten
    PROVE  SessionInv' /\ SessionTrueInv'
<1>0. /\ stored \in 0 .. issued /\ issued \in Nat
      /\ live \subseteq 1 .. issued /\ access \in Access /\ troubled \in BOOLEAN
      /\ expiries \in 0 .. MaxExpiries
  BY SessionTyped
<1>1. /\ refresh' = [r \in Passes |-> NoRefresh] /\ awaits' = [r \in Passes |-> NotWaiting]
      /\ troubled' = (troubled \/ Refreshing # {})
      /\ UNCHANGED <<access, stored, live, issued, expiries>>
  BY DEF Forgotten, ForgetRequests, Passes
<1>2. refresh' \in [Passes -> Refreshes']
  BY <1>0, <1>1 DEF NoRefresh, Refreshes
<1>3. SessionTypeOK'
  BY <1>0, <1>1, <1>2 DEF SessionTypeOK, Passes
<1>4. Refreshing' = {}
  BY <1>1 DEF Refreshing, Passes, NoRefresh
<1>5. \A q \in Passes : RenewalKnown(q)' /\ awaits'[q] = NotWaiting
  BY <1>1 DEF RenewalKnown, NoRefresh
<1>6. SessionTrueInv'
  BY <1>1 DEF SessionTrueInv, RenewalTrue, NoRefresh
<1> QED
  BY <1>3, <1>4, <1>5, <1>6 DEF SessionInv, OneRenewal

LEMMA SessionGoesOn ==
    ASSUME SessionInv, SessionTrueInv, SessionMoves
    PROVE  SessionInv' /\ SessionTrueInv'
<1>1. CASE SameWaits /\ UNCHANGED sessionVars
  <2>1. SessionTypeOK' /\ OneRenewal'
    BY <1>1 DEF SessionInv, SessionTypeOK, sessionVars, Refreshes, OneRenewal, Refreshing
  <2>2. \A q \in Passes : RenewalKnown(q)' /\ (~Waits(q)' => awaits'[q] = NotWaiting)
    BY <1>1 DEF SessionInv, RenewalKnown, SameWaits, sessionVars
  <2>3. SessionTrueInv'
    BY <1>1 DEF SessionTrueInv, RenewalTrue, sessionVars, Refreshing
  <2> QED
    BY <2>1, <2>2, <2>3 DEF SessionInv
<1>2. CASE SameWaits /\ (AccessExpires \/ SignIn)
  BY <1>2, TokensChange
<1>3. ASSUME NEW r \in Passes, SameWaits, RefreshStep(r) \/ refreshFails(r)
      PROVE  SessionInv' /\ SessionTrueInv'
  BY <1>3, ServerRenews, RenewalEnds DEF RefreshStep
<1>4. ASSUME NEW r \in Passes, Denied(r) \/ Resumed(r) PROVE SessionInv' /\ SessionTrueInv'
  BY <1>4, DeniedWaits, ResumedGoesOn
<1>5. CASE Forgotten
  BY <1>5, ForgottenIsIdle
<1> QED
  BY <1>1, <1>2, <1>3, <1>4, <1>5 DEF SessionMoves

(***************************************************************************)
(* A pass: what it has read, what is left to send and what it keeps.       *)
(***************************************************************************)
Kept(s) == ToSet(s.left) \cup ToSet(s.todo)

\* What a pass has dealt with or has just been told was carried out.
Done(s) == (ToSet(s.seen) \ Kept(s))
           \cup (IF s.pc = "answer" /\ s.result = "accepted" THEN {Head(s.todo)} ELSE {})

Sound(s) == /\ s \in PassRecords
            /\ ToSet(s.left) \cap ToSet(s.todo) = {}
            /\ Kept(s) \subseteq ToSet(s.seen)
            /\ s.pc \in {"sent", "answer", "await"} => s.todo # <<>>
            /\ s.pc = "read" => s.left = <<>>

Places == {"over", "read", "loop", "sent", "answer", "await"}

LEMMA PassFields ==
    ASSUME NEW s \in PassRecords
    PROVE  /\ s.pc \in Places
           /\ s.seen \in Lists /\ s.todo \in Lists /\ s.left \in Lists
           /\ s.cancelled \in BOOLEAN /\ s.token \in Access /\ s.retried \in BOOLEAN
           /\ s.result \in Results
           /\ s = [pc |-> s.pc, seen |-> s.seen, todo |-> s.todo, left |-> s.left,
                   cancelled |-> s.cancelled, token |-> s.token, retried |-> s.retried,
                   result |-> s.result]
<1>1. s = [pc |-> s.pc, seen |-> s.seen, todo |-> s.todo, left |-> s.left,
           cancelled |-> s.cancelled, token |-> s.token, retried |-> s.retried,
           result |-> s.result]
  BY DEF PassRecords
<1> QED
  BY <1>1 DEF PassRecords, Places

\* What is left to send and what is kept stay apart: an item that was sent is
\* done, unless it goes to what is kept.
LEMMA Started ==
    ASSUME NEW s, Sound(s), NEW q \in Lists, s.pc = "read",
           NEW t, t = [s EXCEPT !.pc = "loop", !.seen = q, !.todo = q]
    PROVE  Sound(t) /\ t.pc = "loop" /\ t.seen = q /\ Done(t) = {}
<1>1. s \in PassRecords /\ s.left = <<>>
  BY DEF Sound
<1>2. t \in PassRecords
  BY <1>1 DEF PassRecords
<1>3. t.pc = "loop" /\ t.seen = q /\ t.todo = q /\ t.left = <<>>
  BY <1>1 DEF PassRecords
<1>4. Kept(t) = ToSet(q)
  BY <1>3, EmptyList DEF Kept
<1> QED
  BY <1>2, <1>3, <1>4, EmptyList DEF Sound, Done

LEMMA RestKept ==
    ASSUME NEW s, Sound(s), s.pc = "loop",
           NEW t, t = [s EXCEPT !.todo = <<>>, !.left = @ \o s.todo]
    PROVE  Sound(t) /\ t.pc = "loop" /\ t.seen = s.seen /\ Done(t) = Done(s)
<1>1. s \in PassRecords /\ s.left \in Lists /\ s.todo \in Lists
  BY PassFields DEF Sound
<1>2. s.left \o s.todo \in Lists /\ ToSet(s.left \o s.todo) = Kept(s)
  BY <1>1, Concatenation DEF Sound, Kept
<1>3. t = [s EXCEPT !.todo = <<>>, !.left = s.left \o s.todo]
  BY <1>1 DEF PassRecords
<1>4. t \in PassRecords
  BY <1>1, <1>2, <1>3, EmptyList DEF PassRecords
<1>5. t.pc = "loop" /\ t.seen = s.seen /\ t.todo = <<>> /\ t.left = s.left \o s.todo
  BY <1>1, <1>3 DEF PassRecords
<1>6. Kept(t) = Kept(s)
  BY <1>2, <1>5, EmptyList DEF Kept
<1> QED
  BY <1>4, <1>5, <1>6, EmptyList DEF Sound, Done

\* The steps that send, deny or cancel leave the lists alone.
LEMMA ListsAlone ==
    ASSUME NEW s, Sound(s), NEW t \in PassRecords,
           t.seen = s.seen, t.todo = s.todo, t.left = s.left,
           t.pc \in {"sent", "answer", "await"} => s.todo # <<>>,
           t.pc = "read" => s.pc = "read",
           t.pc = "answer" /\ t.result = "accepted" =>
              s.pc = "answer" /\ s.result = "accepted"
    PROVE  Sound(t) /\ Done(t) \subseteq Done(s)
<1>1. Kept(t) = Kept(s)
  BY DEF Kept
<1>2. Sound(t)
  BY <1>1 DEF Sound
<1> QED
  BY <1>1, <1>2 DEF Done

LEMMA ItemSent ==
    ASSUME NEW s, Sound(s), s.todo # <<>>, s.pc \in {"loop", "await"},
           NEW t \in PassRecords, t.pc = "sent",
           t.seen = s.seen, t.todo = s.todo, t.left = s.left
    PROVE  Sound(t) /\ Done(t) = Done(s)
<1>1. Sound(t)
  BY ListsAlone
<1>2. Done(t) = Done(s)
  BY DEF Done, Kept
<1> QED
  BY <1>1, <1>2

LEMMA ItemAnswered ==
    ASSUME NEW s, Sound(s), s.pc \in {"sent", "answer"}, NEW result \in Results,
           NEW t, t = Answered(s, result)
    PROVE  /\ Sound(t) /\ t.pc = "answer" /\ t.result = result
           /\ t.seen = s.seen /\ t.todo = s.todo
           /\ s.pc = "sent" => Done(s) \subseteq Done(t)
           /\ s.pc = "sent" /\ result # "accepted" => Done(t) = Done(s)
           /\ Done(t) \subseteq (ToSet(s.seen) \ Kept(s)) \cup
                                   (IF result = "accepted" THEN {Head(s.todo)} ELSE {})
           /\ s.result # "accepted" => Done(s) \subseteq Done(t)
<1>1. s \in PassRecords /\ s.todo # <<>>
  BY DEF Sound
<1>2. t \in PassRecords
  BY <1>1 DEF PassRecords, Access, Answered
<1>3. /\ t.pc = "answer" /\ t.result = result
      /\ t.seen = s.seen /\ t.todo = s.todo /\ t.left = s.left
  BY <1>1 DEF PassRecords, Answered
<1>4. Kept(t) = Kept(s)
  BY <1>3 DEF Kept
<1>5. Sound(t)
  BY <1>1, <1>2, <1>3, <1>4 DEF Sound
<1> QED
  BY <1>3, <1>4, <1>5 DEF Done

LEMMA ItemHeard ==
    ASSUME NEW s, Sound(s), s.pc \in {"answer", "await"}, NEW kept \in BOOLEAN,
           s.pc = "answer" => (kept <=> s.result # "accepted"), s.pc = "await" => kept,
           NEW t, t = After(s, kept)
    PROVE  Sound(t) /\ t.pc = "loop" /\ t.seen = s.seen /\ Done(t) = Done(s)
<1>1. s \in PassRecords /\ s.todo # <<>> /\ s.todo \in Lists /\ s.left \in Lists
  BY PassFields DEF Sound
<1> DEFINE i == Head(s.todo)
           rest == Tail(s.todo)
           left == IF kept THEN Append(s.left, i) ELSE s.left
<1>2. /\ i \in Items /\ rest \in Lists /\ i \notin ToSet(rest)
      /\ ToSet(s.todo) = {i} \cup ToSet(rest)
  BY <1>1, HeadAndTail
<1>3. i \notin ToSet(s.left) /\ ToSet(s.left) \cap ToSet(rest) = {}
  BY <1>2 DEF Sound
<1>4. /\ left \in Lists
      /\ ToSet(left) = ToSet(s.left) \cup (IF kept THEN {i} ELSE {})
  BY <1>1, <1>2, <1>3, AppendItem
<1>5. t = [s EXCEPT !.pc = "loop", !.todo = rest, !.result = "none", !.retried = FALSE,
                    !.left = left]
  BY <1>1 DEF After, PassRecords
<1> HIDE DEF i, rest, left
<1>6. t \in PassRecords
  BY <1>1, <1>2, <1>4, <1>5 DEF PassRecords, Results
<1>7. t.pc = "loop" /\ t.seen = s.seen /\ t.todo = rest /\ t.left = left
  BY <1>1, <1>5 DEF PassRecords
<1>8. Kept(t) = IF kept THEN Kept(s) ELSE Kept(s) \ {i}
  BY <1>2, <1>3, <1>4, <1>7 DEF Kept
<1>9. i \in Kept(s) /\ i \in ToSet(s.seen)
  BY <1>2 DEF Kept, Sound
<1>10. Sound(t)
  BY <1>2, <1>3, <1>4, <1>6, <1>7, <1>8 DEF Sound
<1>11. Done(t) = Done(s)
  <2>1. CASE kept
    BY <1>7, <1>8, <2>1 DEF Done
  <2>2. CASE ~kept
    <3>1. Done(t) = ToSet(s.seen) \ (Kept(s) \ {i})
      BY <1>7, <1>8, <2>2 DEF Done
    <3>2. Done(s) = (ToSet(s.seen) \ Kept(s)) \cup {i}
      BY <2>2 DEF Done, i
    <3> QED
      BY <1>9, <3>1, <3>2
  <2> QED
    BY <2>1, <2>2
<1> QED
  BY <1>7, <1>10, <1>11

LEMMA ItemDenied ==
    ASSUME NEW s, Sound(s), s.pc = "answer", s.result # "accepted",
           NEW t, t = [s EXCEPT !.pc = "await"]
    PROVE  Sound(t) /\ t.pc = "await" /\ t.seen = s.seen /\ Done(t) = Done(s)
<1>1. s \in PassRecords /\ s.todo # <<>>
  BY DEF Sound
<1>2. t \in PassRecords
  BY <1>1 DEF PassRecords
<1>3. t.pc = "await" /\ t.seen = s.seen /\ t.todo = s.todo /\ t.left = s.left
  BY <1>1 DEF PassRecords
<1>4. Sound(t)
  BY <1>1, <1>2, <1>3, ListsAlone
<1> QED
  BY <1>3, <1>4 DEF Done, Kept

LEMMA Cancelled ==
    ASSUME NEW s, Sound(s), NEW t, t = [s EXCEPT !.cancelled = TRUE]
    PROVE  Sound(t) /\ t.pc = s.pc /\ t.seen = s.seen /\ Done(t) = Done(s)
<1>1. s \in PassRecords
  BY DEF Sound
<1>2. t \in PassRecords
  BY <1>1 DEF PassRecords
<1>3. /\ t.pc = s.pc /\ t.seen = s.seen /\ t.todo = s.todo /\ t.left = s.left
      /\ t.result = s.result
  BY <1>1 DEF PassRecords
<1>4. Kept(t) = Kept(s)
  BY <1>3 DEF Kept
<1> QED
  BY <1>2, <1>3, <1>4 DEF Sound, Done

LEMMA FreshPass ==
    ASSUME NEW t \in {NoPass, NewPass}
    PROVE  Sound(t) /\ t.pc \in {"over", "read"} /\ t.seen = <<>> /\ Done(t) = {}
<1>1. /\ NewPass = [pc |-> "read", seen |-> <<>>, todo |-> <<>>, left |-> <<>>,
                    cancelled |-> FALSE, token |-> "none", retried |-> FALSE, result |-> "none"]
      /\ NoPass = [pc |-> "over", seen |-> <<>>, todo |-> <<>>, left |-> <<>>,
                    cancelled |-> FALSE, token |-> "none", retried |-> FALSE, result |-> "none"]
  <2>1. NoPass = [pc |-> "over", seen |-> <<>>, todo |-> <<>>, left |-> <<>>,
                  cancelled |-> FALSE, token |-> "none", retried |-> FALSE, result |-> "none"]
    BY DEF NoPass
  <2>2. NewPass = [NoPass EXCEPT !.pc = "read"]
    BY DEF NewPass
  <2> QED
    BY <2>1, <2>2
<1>2. t \in PassRecords /\ t.pc \in {"over", "read"}
  <2>1. FALSE \in BOOLEAN /\ "none" \in Access /\ "none" \in Results /\ <<>> \in Lists
    BY EmptyList DEF Access, Results
  <2>2. CASE t = NewPass
    BY <1>1, <2>1, <2>2 DEF PassRecords
  <2>3. CASE t = NoPass
    BY <1>1, <2>1, <2>3 DEF PassRecords
  <2> QED
    BY <2>2, <2>3
<1>3. t.seen = <<>> /\ t.todo = <<>> /\ t.left = <<>> /\ t.result = "none"
  <2>1. CASE t = NewPass
    BY <1>1, <2>1
  <2>2. CASE t = NoPass
    BY <1>1, <2>2
  <2> QED
    BY <2>1, <2>2
<1> QED
  BY <1>2, <1>3, EmptyList DEF Sound, Done, Kept

(***************************************************************************)
(* The queue: no list names an item that was not queued, or one twice, and *)
(* what a pass takes for done was carried out.                             *)
(***************************************************************************)
Settings == /\ network \in {"online", "offline"} /\ answered \subseteq Items
            /\ disturbed \in BOOLEAN /\ unanswered \in BOOLEAN
            /\ interrupts \in 0 .. MaxInterrupts /\ faults \in 0 .. MaxFaults

Queued == {i \in Items : tap[i].pc = "queued"}

TapInv(i) == /\ tap[i].pc = "write" => ToSet(tap[i].seen) \subseteq Queued
             /\ applied[i] > 0 => i \in Queued

PassInv(p) == /\ Sound(pass[p])
              /\ ToSet(pass[p].seen) \subseteq Queued
              /\ \A i \in Done(pass[p]) : applied[i] > 0

QueueInv == /\ queue \in Lists /\ ToSet(queue) \subseteq Queued
            /\ tap \in [Items -> Taps] /\ applied \in [Items -> 0 .. 2]
            /\ \A i \in Items : TapInv(i)
            /\ pass \in [Passes -> PassRecords]
            /\ \A p \in Passes : PassInv(p)

\* Until somebody overlaps a pass, one pass holds the list, no item of it is gone
\* from the stored one, and what the server has carried out the pass knows to be
\* done.
Holds(s) == s.pc \notin {"over", "read"}

QueueTrueInv ==
    ~disturbed =>
        /\ \A p \in Passes : Holds(pass[p]) => ToSet(pass[p].seen) \subseteq ToSet(queue)
        /\ \A p, q \in Passes : Holds(pass[p]) /\ Holds(pass[q]) => p = q
        /\ ~unanswered => \A i \in ToSet(queue) : applied[i] > 0 =>
                             \E p \in Passes : Holds(pass[p]) /\ i \in Done(pass[p])

\* The step is one of the outbox, unless somebody overlaps a pass.
BoxStep == ~disturbed' => Box!OutboxNext \/ UNCHANGED Box!outboxVars

QueueGoesOn == QueueInv' /\ QueueTrueInv' /\ BoxStep

\* What a pass does that changes neither the list nor what is done, or before it
\* holds the list and after.
Goes(s, t) == /\ Sound(t) /\ t.seen = s.seen /\ Done(t) = Done(s) /\ (Holds(t) <=> Holds(s))
Renews(s, t) == t \in {NoPass, NewPass} /\ ~Holds(s)

Quiet == /\ UNCHANGED <<queue, tap, applied, disturbed, unanswered>>
         /\ pass' = [p \in Passes |-> pass'[p]]
         /\ \A p \in Passes : Goes(pass[p], pass'[p]) \/ Renews(pass[p], pass'[p])

LEMMA QuietGoesOn ==
    ASSUME QueueInv, QueueTrueInv, Quiet
    PROVE  QueueGoesOn
<1>1. Queued' = Queued /\ UNCHANGED <<queue, tap, applied, disturbed, unanswered>>
  BY DEF Quiet, Queued
<1>2. ASSUME NEW p \in Passes
      PROVE  /\ Sound(pass'[p]) /\ ToSet(pass'[p].seen) \subseteq Queued
             /\ \A i \in Done(pass'[p]) : applied[i] > 0
             /\ Holds(pass'[p]) => Goes(pass[p], pass'[p])
             /\ Holds(pass[p]) => Goes(pass[p], pass'[p])
  <2>1. PassInv(p)
    BY DEF QueueInv
  <2>2. CASE Goes(pass[p], pass'[p])
    BY <2>1, <2>2 DEF Goes, PassInv
  <2>3. CASE Renews(pass[p], pass'[p])
    <3>1. Sound(pass'[p]) /\ ~Holds(pass'[p]) /\ pass'[p].seen = <<>> /\ Done(pass'[p]) = {}
      BY <2>3, FreshPass DEF Renews, Holds
    <3> QED
      BY <2>3, <3>1, EmptyList DEF Renews
  <2> QED
    BY <2>2, <2>3 DEF Quiet
<1>3. pass' \in [Passes -> PassRecords]
  BY <1>2 DEF Quiet, Sound
<1>4. \A p \in Passes : PassInv(p)'
  BY <1>1, <1>2 DEF PassInv
<1>5. \A i \in Items : TapInv(i)'
  BY <1>1 DEF TapInv, QueueInv
<1>6. QueueInv'
  BY <1>1, <1>3, <1>4, <1>5 DEF QueueInv
<1>7. QueueTrueInv'
  <2> SUFFICES ASSUME ~disturbed' PROVE QueueTrueInv'
    BY DEF QueueTrueInv
  <2>1. \A p \in Passes : Holds(pass'[p]) => ToSet(pass'[p].seen) \subseteq ToSet(queue)
    BY <1>1, <1>2 DEF QueueTrueInv, Goes
  <2>2. \A p, q \in Passes : Holds(pass'[p]) /\ Holds(pass'[q]) => p = q
    BY <1>1, <1>2 DEF QueueTrueInv, Goes
  <2>3. ASSUME ~unanswered, NEW i \in ToSet(queue), applied[i] > 0
        PROVE  \E p \in Passes : Holds(pass'[p]) /\ i \in Done(pass'[p])
    <3>1. PICK p \in Passes : Holds(pass[p]) /\ i \in Done(pass[p])
      BY <1>1, <2>3 DEF QueueTrueInv
    <3>2. Holds(pass'[p]) /\ i \in Done(pass'[p])
      BY <1>2, <3>1 DEF Goes
    <3> QED
      BY <3>2
  <2> QED
    BY <1>1, <2>1, <2>2, <2>3 DEF QueueTrueInv
<1>8. BoxStep
  BY <1>1 DEF BoxStep, Box!outboxVars
<1> QED
  BY <1>6, <1>7, <1>8 DEF QueueGoesOn

\* One pass goes on, and the server may have carried something out.
LEMMA PassGoesOn ==
    ASSUME QueueInv, NEW p \in Passes, NEW t, pass' = [pass EXCEPT ![p] = t], tap' = tap,
           queue' \in Lists, ToSet(queue') \subseteq Queued,
           applied' \in [Items -> 0 .. 2],
           \A i \in Items : /\ applied[i] > 0 => applied'[i] > 0
                            /\ applied'[i] > 0 => i \in Queued,
           Sound(t), ToSet(t.seen) \subseteq Queued, \A i \in Done(t) : applied'[i] > 0
    PROVE  /\ QueueInv'
           /\ pass'[p] = t /\ \A q \in Passes : q # p => pass'[q] = pass[q]
<1>1. Queued' = Queued
  BY DEF Queued
<1>2. /\ pass' \in [Passes -> PassRecords]
      /\ pass'[p] = t /\ \A q \in Passes : q # p => pass'[q] = pass[q]
  BY DEF QueueInv, Sound
<1>3. ASSUME NEW q \in Passes PROVE PassInv(q)'
  <2>1. CASE q = p
    BY <1>1, <1>2, <2>1 DEF PassInv
  <2>2. CASE q # p
    <3>1. Sound(pass[q]) /\ ToSet(pass[q].seen) \subseteq Queued
          /\ \A i \in Done(pass[q]) : applied[i] > 0
      BY DEF QueueInv, PassInv
    <3>2. Done(pass[q]) \subseteq Items
      <4>1. /\ pass[q].seen \in Lists /\ pass[q].todo \in Lists
            /\ pass[q].pc = "answer" => pass[q].todo # <<>>
        BY <3>1, PassFields DEF Sound
      <4>2. ToSet(pass[q].seen) \subseteq Items
        BY <4>1, ListItems
      <4>3. pass[q].pc = "answer" => Head(pass[q].todo) \in Items
        BY <4>1, HeadAndTail
      <4> QED
        BY <4>2, <4>3 DEF Done
    <3> QED
      BY <1>1, <1>2, <2>2, <3>1, <3>2 DEF PassInv
  <2> QED
    BY <2>1, <2>2
<1>4. \A i \in Items : TapInv(i)'
  BY <1>1 DEF TapInv, QueueInv
<1> QED
  BY <1>1, <1>2, <1>3, <1>4 DEF QueueInv

LEMMA PassKnown ==
    ASSUME QueueInv, NEW p \in Passes
    PROVE  /\ Sound(pass[p]) /\ pass[p] \in PassRecords
           /\ ToSet(pass[p].seen) \subseteq Queued /\ \A i \in Done(pass[p]) : applied[i] > 0
           /\ applied \in [Items -> 0 .. 2] /\ \A i \in Items : applied[i] > 0 => i \in Queued
           /\ queue \in Lists /\ ToSet(queue) \subseteq Queued
           /\ pass \in [Passes -> PassRecords] /\ Queued \subseteq Items
BY DEF QueueInv, PassInv, TapInv, Sound, Queued

\* The item a pass has in hand is in its list, and it does not take it for done.
LEMMA InHand ==
    ASSUME QueueInv, NEW p \in Passes, pass[p].todo # <<>>
    PROVE  /\ Item(p) \in Items /\ Item(p) \in Kept(pass[p])
           /\ Item(p) \in ToSet(pass[p].seen) /\ Item(p) \in Queued
           /\ pass[p].pc # "answer" => Item(p) \notin Done(pass[p])
<1>1. Sound(pass[p]) /\ pass[p].todo \in Lists /\ ToSet(pass[p].seen) \subseteq Queued
  BY PassKnown, PassFields
<1>2. Item(p) \in Items /\ Item(p) \in ToSet(pass[p].todo)
  BY <1>1, HeadAndTail DEF Item
<1>3. Item(p) \in Kept(pass[p])
  BY <1>2 DEF Kept
<1> QED
  BY <1>1, <1>2, <1>3 DEF Sound, Done

\* A pass reads the list.
LEMMA StartGoesOn ==
    ASSUME Settings, QueueInv, QueueTrueInv, NEW p \in Passes, getSyncQueue(p)
    PROVE  QueueGoesOn
<1>1. pass[p].pc = "read" /\ UNCHANGED <<network, queue, tap, interrupts, faults, applied, answered,
                                         unanswered>>
  BY DEF getSyncQueue, PassOn, outcomes
<1>2. ~Holds(pass[p])
  BY <1>1 DEF Holds
<1>0. pass \in [Passes -> PassRecords] /\ queue \in Lists /\ ToSet(queue) \subseteq Queued
  BY PassKnown
<1>3. CASE queue = <<>>
  <2>1. pass' = [pass EXCEPT ![p] = NoPass] /\ disturbed' = disturbed
    BY <1>3 DEF getSyncQueue, PassOn, Settings
  <2>2. pass' = [q \in Passes |-> pass'[q]] /\ pass'[p] = NoPass
    BY <1>0, <2>1
  <2>3. ASSUME NEW q \in Passes, q # p PROVE Goes(pass[q], pass'[q])
    <3>1. pass'[q] = pass[q] /\ Sound(pass[q])
      BY <1>0, <2>1, <2>3, PassKnown
    <3> QED
      BY <3>1 DEF Goes
  <2>4. Renews(pass[p], pass'[p])
    BY <1>2, <2>2 DEF Renews
  <2>5. Quiet
    BY <1>1, <2>1, <2>2, <2>3, <2>4 DEF Quiet
  <2> QED
    BY <2>5, QuietGoesOn
<1>4. CASE queue # <<>>
  <2> DEFINE t == [pass[p] EXCEPT !.pc = "loop", !.seen = queue, !.todo = queue]
  <2>1. pass' = [pass EXCEPT ![p] = t]
    BY <1>4 DEF getSyncQueue, PassOn
  <2>2. Sound(t) /\ t.pc = "loop" /\ t.seen = queue /\ Done(t) = {}
    BY <1>0, <1>1, PassKnown, Started
  <2> HIDE DEF t
  <2>3. QueueInv' /\ pass'[p] = t /\ \A q \in Passes : q # p => pass'[q] = pass[q]
    BY <1>0, <1>1, <2>1, <2>2, PassGoesOn, PassKnown
  <2>4. QueueTrueInv'
    <3> SUFFICES ASSUME ~disturbed' PROVE QueueTrueInv'
      BY DEF QueueTrueInv
    <3>1. ~disturbed /\ Holding = {}
      BY <1>4 DEF getSyncQueue
    <3>2. \A q \in Passes : ~Holds(pass[q])
      BY <3>1 DEF Holding, Running, Holds
    <3>3. \A q \in Passes : Holds(pass'[q]) => q = p
      BY <2>3, <3>2
    <3>4. ~unanswered => \A i \in ToSet(queue) : ~(applied[i] > 0)
      BY <3>1, <3>2 DEF QueueTrueInv
    <3> QED
      BY <1>1, <2>2, <2>3, <3>3, <3>4 DEF QueueTrueInv
  <2>5. BoxStep
    BY <1>1 DEF BoxStep, Box!outboxVars
  <2> QED
    BY <2>3, <2>4, <2>5 DEF QueueGoesOn
<1> QED
  BY <1>3, <1>4

\* The server carries out what a pass sends, and as long as it was told of
\* everything it is the first time.
LEMMA AcceptanceGoesOn ==
    ASSUME QueueInv, QueueTrueInv, NEW p \in Passes, pass[p].pc = "sent",
           Hears(p, "accepted"), UNCHANGED <<disturbed, unanswered>>,
           applied' = [applied EXCEPT ![Item(p)] = IF @ = 2 THEN 2 ELSE @ + 1]
    PROVE  QueueGoesOn
<1> DEFINE t == Answered(pass[p], "accepted")
<1>0. /\ Sound(pass[p]) /\ ToSet(pass[p].seen) \subseteq Queued
      /\ \A i \in Done(pass[p]) : applied[i] > 0
      /\ applied \in [Items -> 0 .. 2] /\ \A i \in Items : applied[i] > 0 => i \in Queued
      /\ queue \in Lists /\ ToSet(queue) \subseteq Queued
  BY PassKnown
<1>1. pass' = [pass EXCEPT ![p] = t] /\ UNCHANGED <<queue, tap>>
  BY DEF Hears, PassOn
<1>2. pass[p].todo # <<>>
  BY <1>0 DEF Sound
<1>3. /\ Item(p) \in Items /\ Item(p) \in ToSet(pass[p].seen) /\ Item(p) \in Queued
      /\ Item(p) \notin Done(pass[p])
  BY <1>2, InHand
<1>4. /\ Sound(t) /\ t.pc = "answer" /\ t.seen = pass[p].seen
      /\ Done(t) = Done(pass[p]) \cup {Item(p)}
  <2>1. /\ Sound(t) /\ t.pc = "answer" /\ t.result = "accepted" /\ t.seen = pass[p].seen
        /\ t.todo = pass[p].todo /\ Done(pass[p]) \subseteq Done(t)
        /\ Done(t) \subseteq (ToSet(pass[p].seen) \ Kept(pass[p])) \cup {Head(pass[p].todo)}
    BY <1>0, ItemAnswered DEF Results
  <2>2. ToSet(pass[p].seen) \ Kept(pass[p]) \subseteq Done(pass[p])
    BY DEF Done
  <2>3. Head(pass[p].todo) \in Done(t)
    BY <2>1 DEF Done
  <2> QED
    BY <2>1, <2>2, <2>3 DEF Item
<1> HIDE DEF t
<1>5. /\ applied' \in [Items -> 0 .. 2] /\ applied'[Item(p)] > 0
      /\ \A i \in Items : i # Item(p) => applied'[i] = applied[i]
  <2>1. applied[Item(p)] \in 0 .. 2
    BY <1>0, <1>3
  <2>2. (IF applied[Item(p)] = 2 THEN 2 ELSE applied[Item(p)] + 1) \in 1 .. 2
    BY <2>1
  <2> QED
    BY <1>0, <1>3, <2>2
<1>6. QueueInv' /\ pass'[p] = t /\ \A q \in Passes : q # p => pass'[q] = pass[q]
  <2>1. \A i \in Items : /\ applied[i] > 0 => applied'[i] > 0
                         /\ applied'[i] > 0 => i \in Queued
    BY <1>0, <1>3, <1>5
  <2>2. \A i \in Done(t) : applied'[i] > 0
    <3> TAKE i \in Done(t)
    <3>1. CASE i = Item(p)
      BY <1>5, <3>1
    <3>2. CASE i # Item(p)
      <4>1. i \in Done(pass[p]) /\ applied[i] > 0
        BY <1>0, <1>4, <3>2
      <4>2. i \in Items
        <5>1. ToSet(pass[p].seen) \subseteq Items
          BY <1>0 DEF Queued
        <5> QED
          BY <4>1, <5>1 DEF Done
      <4> QED
        BY <1>5, <3>2, <4>1, <4>2
    <3> QED
      BY <3>1, <3>2
  <2> QED
    BY <1>0, <1>1, <1>4, <1>5, <2>1, <2>2, PassGoesOn
<1>7. Holds(pass[p]) /\ Holds(t)
  BY <1>4 DEF Holds
<1>8. QueueTrueInv'
  <2> SUFFICES ASSUME ~disturbed' PROVE QueueTrueInv'
    BY DEF QueueTrueInv
  <2>1. \A q \in Passes : Holds(pass[q]) => q = p
    BY <1>7 DEF QueueTrueInv
  <2>2. \A q \in Passes : Holds(pass'[q]) => q = p
    BY <1>6, <2>1
  <2>3. ToSet(t.seen) \subseteq ToSet(queue)
    BY <1>4, <1>7 DEF QueueTrueInv
  <2>4. ASSUME ~unanswered, NEW i \in ToSet(queue), applied'[i] > 0 PROVE i \in Done(t)
    <3>1. CASE i = Item(p)
      BY <1>4, <3>1
    <3>2. CASE i # Item(p)
      <4>1. i \in Items /\ applied[i] > 0
        BY <1>0, <1>5, <2>4, <3>2 DEF Queued
      <4>2. i \in Done(pass[p])
        BY <2>1, <2>4, <4>1 DEF QueueTrueInv
      <4> QED
        BY <1>4, <4>2
    <3> QED
      BY <3>1, <3>2
  <2> QED
    BY <1>1, <1>6, <1>7, <2>2, <2>3, <2>4 DEF QueueTrueInv
<1>9. BoxStep
  <2> SUFFICES ASSUME ~disturbed' PROVE Box!OutboxNext \/ UNCHANGED Box!outboxVars
    BY DEF BoxStep
  <2>1. Item(p) \in ToSet(queue)
    BY <1>3, <1>7 DEF QueueTrueInv
  <2>2. applied[Item(p)] = 0 \/ unanswered
    <3> SUFFICES ASSUME ~unanswered, applied[Item(p)] > 0 PROVE FALSE
      BY <1>0, <1>3
    <3>1. PICK q \in Passes : Holds(pass[q]) /\ Item(p) \in Done(pass[q])
      BY <2>1 DEF QueueTrueInv
    <3> QED
      BY <1>3, <1>7, <3>1 DEF QueueTrueInv
  <2>3. CASE applied[Item(p)] = 2
    <3>1. applied' = applied
      BY <1>0, <2>3
    <3> QED
      BY <1>1, <3>1 DEF Box!outboxVars
  <2>4. CASE applied[Item(p)] # 2
    <3>1. applied' = [applied EXCEPT ![Item(p)] = @ + 1]
      BY <2>4
    <3>2. Box!CarryOut(Item(p)) /\ Item(p) \in DOMAIN applied
      BY <1>0, <1>1, <1>3, <2>1, <2>2, <3>1 DEF Box!CarryOut
    <3> QED
      BY <3>2 DEF Box!OutboxNext
  <2> QED
    BY <2>3, <2>4
<1> QED
  BY <1>6, <1>8, <1>9 DEF QueueGoesOn

\* The answer to a request is lost: if it was carried out, it was in vain.
LEMMA LossGoesOn ==
    ASSUME Settings, QueueInv, QueueTrueInv, NEW p \in Passes, requestLost(p)
    PROVE  QueueGoesOn
<1> DEFINE t == Answered(pass[p], "error")
<1>0. /\ Sound(pass[p]) /\ ToSet(pass[p].seen) \subseteq Queued
      /\ \A i \in Done(pass[p]) : applied[i] > 0
      /\ applied \in [Items -> 0 .. 2] /\ \A i \in Items : applied[i] > 0 => i \in Queued
      /\ queue \in Lists /\ ToSet(queue) \subseteq Queued /\ pass \in [Passes -> PassRecords]
  BY PassKnown
<1>1. /\ pass[p].pc \in {"sent", "answer"} /\ pass[p].result # "error"
      /\ pass' = [pass EXCEPT ![p] = t] /\ UNCHANGED <<queue, tap, applied, disturbed>>
      /\ unanswered' = (unanswered \/ pass[p].result = "accepted")
  BY DEF requestLost, outcomes
<1>2. /\ Sound(t) /\ t.pc = "answer" /\ t.seen = pass[p].seen /\ Done(t) \subseteq Done(pass[p])
      /\ pass[p].result # "accepted" => Done(pass[p]) = Done(t)
  <2>1. /\ Sound(t) /\ t.pc = "answer" /\ t.seen = pass[p].seen
        /\ Done(t) \subseteq (ToSet(pass[p].seen) \ Kept(pass[p])) \cup {}
        /\ pass[p].result # "accepted" => Done(pass[p]) \subseteq Done(t)
    BY <1>0, <1>1, ItemAnswered DEF Results
  <2>2. ToSet(pass[p].seen) \ Kept(pass[p]) \subseteq Done(pass[p])
    BY DEF Done
  <2> QED
    BY <2>1, <2>2
<1> HIDE DEF t
<1>3. Holds(pass[p]) /\ Holds(t)
  BY <1>1, <1>2 DEF Holds
<1>4. QueueInv' /\ pass'[p] = t /\ \A q \in Passes : q # p => pass'[q] = pass[q]
  BY <1>0, <1>1, <1>2, PassGoesOn
<1>5. CASE unanswered' = unanswered /\ Done(t) = Done(pass[p])
  <2>1. Goes(pass[p], pass'[p])
    BY <1>2, <1>3, <1>4, <1>5 DEF Goes
  <2>2. ASSUME NEW q \in Passes, q # p PROVE Goes(pass[q], pass'[q])
    <3>1. pass'[q] = pass[q] /\ Sound(pass[q])
      BY <1>4, <2>2, PassKnown
    <3> QED
      BY <3>1 DEF Goes
  <2>3. pass' = [q \in Passes |-> pass'[q]]
    BY <1>0, <1>1
  <2>4. Quiet
    BY <1>1, <1>5, <2>1, <2>2, <2>3 DEF Quiet
  <2> QED
    BY <2>4, QuietGoesOn
<1>6. CASE unanswered' /\ ~unanswered
  <2>1. QueueTrueInv'
    BY <1>1, <1>2, <1>3, <1>4, <1>6 DEF QueueTrueInv
  <2>2. Box!LoseTrack
    BY <1>1, <1>6 DEF Box!LoseTrack
  <2> QED
    BY <1>4, <2>1, <2>2 DEF QueueGoesOn, BoxStep, Box!OutboxNext
<1>7. CASE unanswered' /\ unanswered
  <2>1. QueueTrueInv'
    BY <1>1, <1>2, <1>3, <1>4, <1>7 DEF QueueTrueInv
  <2>2. unanswered' = unanswered
    BY <1>1, <1>7 DEF Settings
  <2>3. UNCHANGED Box!outboxVars
    BY <1>1, <2>2 DEF Box!outboxVars
  <2> QED
    BY <1>4, <2>1, <2>3 DEF QueueGoesOn, BoxStep
<1> QED
  BY <1>1, <1>2, <1>5, <1>6, <1>7 DEF Settings

\* A pass that has read the list as it still is stores what it keeps of it, and
\* everything else was carried out.
LEMMA StoringGoesOn ==
    ASSUME Settings, QueueInv, QueueTrueInv, NEW p \in Passes, replaceSyncQueue(p)
    PROVE  QueueGoesOn
<1>0. /\ Sound(pass[p]) /\ ToSet(pass[p].seen) \subseteq Queued
      /\ \A i \in Done(pass[p]) : applied[i] > 0
      /\ applied \in [Items -> 0 .. 2] /\ \A i \in Items : applied[i] > 0 => i \in Queued
      /\ queue \in Lists /\ ToSet(queue) \subseteq Queued /\ pass \in [Passes -> PassRecords]
  BY PassKnown
<1>1. /\ pass[p].pc = "loop" /\ pass[p].todo = <<>> /\ queue' = pass[p].left
      /\ disturbed' = (disturbed \/ queue # pass[p].seen) /\ pass' = [pass EXCEPT ![p] = NoPass]
      /\ UNCHANGED <<tap, applied, unanswered>>
  BY DEF replaceSyncQueue, outcomes
<1>2. Kept(pass[p]) = ToSet(queue') /\ queue' \in Lists /\ ToSet(queue') \subseteq ToSet(pass[p].seen)
  BY <1>0, <1>1, PassFields, EmptyList DEF Kept, Sound
<1>3. Sound(NoPass) /\ NoPass.seen = <<>> /\ Done(NoPass) = {} /\ ~Holds(NoPass)
  BY FreshPass DEF Holds
<1>4. QueueInv' /\ pass'[p] = NoPass /\ \A q \in Passes : q # p => pass'[q] = pass[q]
  BY <1>0, <1>1, <1>2, <1>3, EmptyList, PassGoesOn
<1>5. Holds(pass[p])
  BY <1>1 DEF Holds
<1>6. ASSUME ~disturbed'
      PROVE  /\ \A i \in ToSet(queue) \ ToSet(queue') : applied[i] > 0
             /\ ToSet(queue') \subseteq ToSet(queue)
             /\ ~unanswered => \A i \in ToSet(queue') : ~(applied[i] > 0)
             /\ \A q \in Passes : ~Holds(pass'[q])
  <2>1. ~disturbed /\ queue = pass[p].seen
    BY <1>1, <1>6
  <2>2. \A q \in Passes : Holds(pass[q]) => q = p
    BY <1>5, <2>1 DEF QueueTrueInv
  <2>3. Done(pass[p]) = ToSet(queue) \ ToSet(queue')
    BY <1>1, <1>2, <2>1 DEF Done
  <2>4. ~unanswered => \A i \in ToSet(queue) : applied[i] > 0 => i \in Done(pass[p])
    BY <2>1, <2>2 DEF QueueTrueInv
  <2> QED
    BY <1>0, <1>2, <1>3, <1>4, <2>1, <2>2, <2>3, <2>4
<1>7. QueueTrueInv'
  BY <1>1, <1>6 DEF QueueTrueInv
<1>8. BoxStep
  BY <1>1, <1>6 DEF BoxStep, Box!OutboxNext, Box!Remove
<1> QED
  BY <1>4, <1>7, <1>8 DEF QueueGoesOn

\* A tap reads the list; and it appends its item to it.
LEMMA TapGoesOn ==
    ASSUME Settings, QueueInv, QueueTrueInv, NEW i \in Items, enqueueRead(i) \/ enqueueSyncItem(i)
    PROVE  QueueGoesOn
<1>0. /\ queue \in Lists /\ ToSet(queue) \subseteq Queued /\ tap \in [Items -> Taps]
      /\ pass \in [Passes -> PassRecords] /\ applied \in [Items -> 0 .. 2]
      /\ \A j \in Items : TapInv(j)
      /\ \A p \in Passes : PassInv(p)
  BY DEF QueueInv
<1>1. UNCHANGED <<pass, applied, unanswered>>
  BY DEF enqueueRead, enqueueSyncItem, outcomes
<1>2. CASE enqueueRead(i)
  <2>1. /\ tap[i].pc = "none" /\ tap' = [tap EXCEPT ![i] = [pc |-> "write", seen |-> queue]]
        /\ UNCHANGED <<queue, disturbed>>
    BY <1>2 DEF enqueueRead
  <2>2. /\ tap'[i].pc = "write" /\ tap'[i].seen = queue
        /\ \A j \in Items : j # i => tap'[j] = tap[j]
    BY <1>0, <2>1
  <2>3. Queued' = Queued
    <3>1. \A j \in Items : tap'[j].pc = "queued" <=> tap[j].pc = "queued"
      BY <2>1, <2>2
    <3> QED
      BY <3>1 DEF Queued
  <2>4. tap' \in [Items -> Taps]
    BY <1>0, <2>1 DEF Taps
  <2>5. ASSUME NEW j \in Items PROVE TapInv(j)'
    <3>1. CASE j = i
      BY <1>0, <1>1, <2>2, <2>3, <3>1 DEF TapInv
    <3>2. CASE j # i
      BY <1>0, <1>1, <2>2, <2>3, <3>2 DEF TapInv
    <3> QED
      BY <3>1, <3>2
  <2>6. \A p \in Passes : PassInv(p)'
    BY <1>0, <1>1, <2>3 DEF PassInv
  <2>7. QueueInv'
    BY <1>0, <1>1, <2>1, <2>3, <2>4, <2>5, <2>6 DEF QueueInv
  <2>8. QueueTrueInv'
    BY <1>1, <2>1 DEF QueueTrueInv
  <2>9. BoxStep
    BY <1>1, <2>1 DEF BoxStep, Box!outboxVars
  <2> QED
    BY <2>7, <2>8, <2>9 DEF QueueGoesOn
<1>3. CASE enqueueSyncItem(i)
  <2>1. /\ tap[i].pc = "write" /\ tap' = [tap EXCEPT ![i] = [pc |-> "queued"]]
        /\ queue' = Append(tap[i].seen, i)
        /\ disturbed' = (disturbed \/ queue # tap[i].seen)
    BY <1>3 DEF enqueueSyncItem
  <2>2. tap'[i].pc = "queued" /\ \A j \in Items : j # i => tap'[j] = tap[j]
    BY <1>0, <2>1
  <2>3. i \notin Queued /\ Queued' = Queued \cup {i}
    <3>1. \A j \in Items : tap'[j].pc = "queued" <=> tap[j].pc = "queued" \/ j = i
      BY <2>1, <2>2
    <3> QED
      BY <2>1, <3>1 DEF Queued
  <2>4. tap[i].seen \in Lists /\ ToSet(tap[i].seen) \subseteq Queued
    <3>1. tap[i] \in Taps
      BY <1>0
    <3>2. tap[i].seen \in Lists
      BY <2>1, <3>1 DEF Taps
    <3> QED
      BY <1>0, <2>1, <3>2 DEF TapInv
  <2>5. queue' \in Lists /\ ToSet(queue') = ToSet(tap[i].seen) \cup {i}
    BY <2>1, <2>3, <2>4, AppendItem
  <2>6. tap' \in [Items -> Taps]
    BY <1>0, <2>1 DEF Taps
  <2>7. ASSUME NEW j \in Items PROVE TapInv(j)'
    <3>1. CASE j = i
      BY <1>0, <1>1, <2>2, <2>3, <3>1 DEF TapInv
    <3>2. CASE j # i
      BY <1>0, <1>1, <2>2, <2>3, <3>2 DEF TapInv
    <3> QED
      BY <3>1, <3>2
  <2>8. \A p \in Passes : PassInv(p)'
    BY <1>0, <1>1, <2>3 DEF PassInv
  <2>9. QueueInv'
    BY <1>0, <1>1, <2>3, <2>4, <2>5, <2>6, <2>7, <2>8 DEF QueueInv
  <2>10. ASSUME ~disturbed' PROVE ~disturbed /\ ToSet(queue') = ToSet(queue) \cup {i}
    BY <2>1, <2>5, <2>10
  <2>11. QueueTrueInv'
    <3>1. ~(applied[i] > 0)
      BY <1>0, <2>3 DEF TapInv
    <3> QED
      BY <1>1, <2>10, <3>1 DEF QueueTrueInv
  <2>12. BoxStep
    <3>1. i \notin ToSet(queue) /\ i \in DOMAIN applied
      BY <1>0, <2>3
    <3> QED
      BY <1>1, <2>10, <3>1 DEF BoxStep, Box!OutboxNext, Box!Put
  <2> QED
    BY <2>9, <2>11, <2>12 DEF QueueGoesOn
<1> QED
  BY <1>2, <1>3

\* The application is killed: who was about to send an item again no longer knows
\* whether it was carried out.
LEMMA KillGoesOn ==
    ASSUME Settings, QueueInv, QueueTrueInv, Killed
    PROVE  QueueGoesOn /\ Forgotten
<1>0. /\ queue \in Lists /\ ToSet(queue) \subseteq Queued /\ tap \in [Items -> Taps]
      /\ applied \in [Items -> 0 .. 2] /\ \A j \in Items : TapInv(j)
  BY DEF QueueInv
<1>1. /\ unanswered' = (unanswered \/ \E i \in ToSet(queue) : applied[i] > 0)
      /\ tap' = [i \in Items |-> IF tap[i].pc = "write" THEN [pc |-> "none"] ELSE tap[i]]
      /\ UNCHANGED <<queue, applied, disturbed>> /\ ForgetRequests
  BY DEF Killed, outcomes
<1>2. /\ \A p \in Passes : pass'[p] \in {NoPass, NewPass}
      /\ pass' \in [Passes -> {NoPass, NewPass}]
  BY DEF Killed
<1>3. ASSUME NEW p \in Passes
      PROVE  Sound(pass'[p]) /\ ~Holds(pass'[p]) /\ pass'[p].seen = <<>> /\ Done(pass'[p]) = {}
  BY <1>2, FreshPass DEF Holds
<1>4. Queued' = Queued
  <2>1. \A j \in Items : tap'[j].pc = "queued" <=> tap[j].pc = "queued"
    BY <1>1
  <2> QED
    BY <2>1 DEF Queued
<1>5. tap' \in [Items -> Taps]
  BY <1>0, <1>1 DEF Taps
<1>6. \A j \in Items : TapInv(j)'
  <2>1. \A j \in Items : tap'[j].pc # "write"
    BY <1>1
  <2> QED
    BY <1>0, <1>1, <1>4, <2>1 DEF TapInv
<1>7. \A p \in Passes : PassInv(p)'
  BY <1>3, EmptyList DEF PassInv
<1>8. pass' \in [Passes -> PassRecords]
  BY <1>2, <1>3 DEF Sound
<1>9. QueueInv'
  BY <1>0, <1>1, <1>4, <1>5, <1>6, <1>7, <1>8 DEF QueueInv
<1>10. QueueTrueInv'
  BY <1>1, <1>3 DEF QueueTrueInv
<1>11. BoxStep
  <2>1. CASE unanswered' = unanswered
    BY <1>1, <2>1 DEF BoxStep, Box!outboxVars
  <2>2. CASE ~unanswered /\ unanswered'
    BY <1>1, <2>2 DEF BoxStep, Box!OutboxNext, Box!LoseTrack
  <2> QED
    BY <1>1, <2>1, <2>2 DEF Settings
<1>12. Forgotten
  <2>1. \A p \in Passes : pass'[p].pc \in {"over", "read"}
    BY <1>2, FreshPass
  <2> QED
    BY <1>1, <2>1 DEF Forgotten, Waits
<1> QED
  BY <1>9, <1>10, <1>11, <1>12 DEF QueueGoesOn

\* A change of the network cancels passes, and may start one.
LEMMA NetworkGoesOn ==
    ASSUME Settings, QueueInv, QueueTrueInv, GoOffline \/ GoOnline
    PROVE  QueueGoesOn /\ SameWaits
<1>0. pass \in [Passes -> PassRecords] /\ \A p \in Passes : Sound(pass[p])
  BY DEF QueueInv, PassInv
<1>1. UNCHANGED <<queue, tap, applied, disturbed, unanswered>>
  BY DEF GoOffline, GoOnline, outcomes
<1>2. ASSUME NEW p \in Passes
      PROVE  Goes(pass[p], Cancel(pass)[p]) /\ Cancel(pass)[p].pc = pass[p].pc
  <2>1. CASE p \in Running
    <3>1. Cancel(pass)[p] = [pass[p] EXCEPT !.cancelled = TRUE]
      BY <2>1 DEF Cancel
    <3> QED
      BY <1>0, <3>1, Cancelled DEF Goes, Holds
  <2>2. CASE p \notin Running
    <3>1. Cancel(pass)[p] = pass[p]
      BY <2>2 DEF Cancel
    <3> QED
      BY <1>0, <3>1 DEF Goes
  <2> QED
    BY <2>1, <2>2
<1>3. CASE GoOffline
  <2>1. pass' = Cancel(pass)
    BY <1>3 DEF GoOffline
  <2>2. pass' = [p \in Passes |-> pass'[p]]
    BY <2>1 DEF Cancel
  <2>3. Quiet
    BY <1>1, <1>2, <2>1, <2>2 DEF Quiet
  <2>4. SameWaits
    BY <1>2, <2>1 DEF SameWaits, Waits
  <2> QED
    BY <2>3, <2>4, QuietGoesOn
<1>4. CASE GoOnline
  <2> DEFINE n == CHOOSE p \in Passes : p \notin Running
  <2>1. /\ Running # Passes /\ Running \subseteq Passes
        /\ pass' = [Cancel(pass) EXCEPT ![n] = NewPass]
    BY <1>4 DEF GoOnline, Running
  <2>2. n \in Passes /\ n \notin Running
    BY <2>1
  <2> HIDE DEF n
  <2>3. pass[n].pc = "over" /\ NewPass.pc \in {"over", "read"}
    BY <2>2, FreshPass DEF Running
  <2>4. pass' = [p \in Passes |-> pass'[p]]
    BY <2>1 DEF Cancel
  <2>5. pass'[n] = NewPass /\ \A p \in Passes : p # n => pass'[p] = Cancel(pass)[p]
    BY <2>1, <2>2 DEF Cancel
  <2>6. Renews(pass[n], pass'[n])
    BY <2>3, <2>5 DEF Renews, Holds
  <2>7. Quiet
    BY <1>1, <1>2, <2>4, <2>5, <2>6 DEF Quiet
  <2>8. SameWaits
    <3> SUFFICES ASSUME NEW p \in Passes PROVE pass'[p].pc = "await" <=> pass[p].pc = "await"
      BY DEF SameWaits, Waits
    <3>1. CASE p = n
      BY <2>3, <2>5, <3>1
    <3>2. CASE p # n
      BY <1>2, <2>5, <3>2
    <3> QED
      BY <3>1, <3>2
  <2> QED
    BY <2>7, <2>8, QuietGoesOn
<1> QED
  BY <1>3, <1>4

\* The steps of a pass that move it alone, and leave what it has done.
LEMMA PassQuiet ==
    ASSUME QueueInv, QueueTrueInv, NEW p \in Passes, NEW t, PassOn(p, t),
           UNCHANGED <<applied, disturbed, unanswered>>, Goes(pass[p], t)
    PROVE  QueueGoesOn /\ pass'[p] = t /\ \A q \in Passes : q # p => pass'[q] = pass[q]
<1>1. pass \in [Passes -> PassRecords] /\ \A q \in Passes : Sound(pass[q])
  BY DEF QueueInv, PassInv
<1>2. pass' = [pass EXCEPT ![p] = t] /\ UNCHANGED <<queue, tap>>
  BY DEF PassOn
<1>3. pass'[p] = t /\ \A q \in Passes : q # p => pass'[q] = pass[q]
  BY <1>1, <1>2
<1>4. pass' = [q \in Passes |-> pass'[q]]
  BY <1>1, <1>2
<1>5. \A q \in Passes : Goes(pass[q], pass'[q])
  BY <1>1, <1>3 DEF Goes
<1>6. Quiet
  BY <1>2, <1>4, <1>5 DEF Quiet
<1> QED
  BY <1>3, <1>6, QuietGoesOn

LEMMA SendingGoesOn ==
    ASSUME QueueInv, QueueTrueInv, NEW p \in Passes, access \in Access,
           keepRest(p) \/ processSyncItem(p) \/ hear(p)
    PROVE  QueueGoesOn /\ SameWaits
<1>0. Sound(pass[p])
  BY DEF QueueInv, PassInv
<1>1. UNCHANGED <<applied, disturbed, unanswered>>
  BY DEF keepRest, processSyncItem, hear, outcomes
<1>2. ASSUME NEW t, PassOn(p, t), Goes(pass[p], t), t.pc # "await", pass[p].pc # "await"
      PROVE  QueueGoesOn /\ SameWaits
  <2>1. QueueGoesOn /\ pass'[p] = t /\ \A q \in Passes : q # p => pass'[q] = pass[q]
    BY <1>1, <1>2, PassQuiet
  <2> QED
    BY <1>2, <2>1 DEF SameWaits, Waits
<1>3. CASE keepRest(p)
  <2> DEFINE t == [pass[p] EXCEPT !.todo = <<>>, !.left = @ \o pass[p].todo]
  <2>1. PassOn(p, t) /\ pass[p].pc = "loop"
    BY <1>3 DEF keepRest
  <2>2. Sound(t) /\ t.pc = "loop" /\ t.seen = pass[p].seen /\ Done(t) = Done(pass[p])
    BY <1>0, <2>1, RestKept
  <2> HIDE DEF t
  <2>3. Goes(pass[p], t)
    BY <2>1, <2>2 DEF Goes, Holds
  <2> QED
    BY <1>2, <2>1, <2>2, <2>3
<1>4. CASE processSyncItem(p)
  <2> DEFINE t == [pass[p] EXCEPT !.pc = "sent", !.token = access, !.retried = FALSE]
  <2>1. PassOn(p, t) /\ pass[p].pc = "loop" /\ pass[p].todo # <<>>
    BY <1>4 DEF processSyncItem
  <2>2. Sound(t) /\ t.pc = "sent" /\ t.seen = pass[p].seen /\ Done(t) = Done(pass[p])
    <3>1. pass[p] \in PassRecords
      BY <1>0 DEF Sound
    <3>2. t \in PassRecords
      BY <3>1 DEF PassRecords
    <3>3. /\ t.pc = "sent" /\ t.seen = pass[p].seen /\ t.todo = pass[p].todo
          /\ t.left = pass[p].left
      BY <3>1 DEF PassRecords
    <3> QED
      BY <1>0, <2>1, <3>2, <3>3, ItemSent
  <2> HIDE DEF t
  <2>3. Goes(pass[p], t)
    BY <2>1, <2>2 DEF Goes, Holds
  <2> QED
    BY <1>2, <2>1, <2>2, <2>3
<1>5. CASE hear(p)
  <2> DEFINE kept == pass[p].result # "accepted"
             t == After(pass[p], kept)
  <2>1. PassOn(p, t) /\ pass[p].pc = "answer"
    BY <1>5 DEF hear
  <2>2. Sound(t) /\ t.pc = "loop" /\ t.seen = pass[p].seen /\ Done(t) = Done(pass[p])
    BY <1>0, <2>1, ItemHeard
  <2> HIDE DEF t
  <2>3. Goes(pass[p], t)
    BY <2>1, <2>2 DEF Goes, Holds
  <2> QED
    BY <1>2, <2>1, <2>2, <2>3
<1> QED
  BY <1>3, <1>4, <1>5

LEMMA ServingGoesOn ==
    ASSUME QueueInv, QueueTrueInv, NEW p \in Passes, serve(p)
    PROVE  QueueGoesOn /\ SameWaits
<1>0. Sound(pass[p]) /\ pass \in [Passes -> PassRecords]
  BY DEF QueueInv, PassInv
<1>1. pass[p].pc = "sent" /\ UNCHANGED <<disturbed, unanswered>>
  BY DEF serve
<1>2. PICK result \in Results :
         /\ Hears(p, result)
         /\ result # "accepted" => applied' = applied
         /\ result = "accepted" => applied' = [applied EXCEPT ![Item(p)] = IF @ = 2 THEN 2 ELSE @ + 1]
  BY DEF serve, Results, outcomes
<1> DEFINE t == Answered(pass[p], result)
<1>3. /\ Sound(t) /\ t.pc = "answer" /\ t.seen = pass[p].seen
      /\ result # "accepted" => Done(t) = Done(pass[p])
  BY <1>0, <1>1, ItemAnswered
<1>4. PassOn(p, t)
  BY <1>2 DEF Hears
<1> HIDE DEF t
<1>5. QueueGoesOn
  <2>1. CASE result = "accepted"
    BY <1>1, <1>2, <2>1, AcceptanceGoesOn
  <2>2. CASE result # "accepted"
    <3>1. Goes(pass[p], t)
      BY <1>1, <1>3, <2>2 DEF Goes, Holds
    <3> QED
      BY <1>1, <1>2, <1>4, <2>2, <3>1, PassQuiet
  <2> QED
    BY <2>1, <2>2
<1>6. SameWaits
  <2>1. pass'[p] = t /\ \A q \in Passes : q # p => pass'[q] = pass[q]
    BY <1>0, <1>4 DEF PassOn
  <2> QED
    BY <1>1, <1>3, <2>1 DEF SameWaits, Waits
<1> QED
  BY <1>5, <1>6

LEMMA DenialGoesOn ==
    ASSUME QueueInv, QueueTrueInv, NEW p \in Passes, access \in Access, renew(p) \/ sendAgain(p)
    PROVE  QueueGoesOn /\ (Denied(p) \/ Resumed(p))
<1>0. Sound(pass[p])
  BY DEF QueueInv, PassInv
<1>1. UNCHANGED <<applied, disturbed, unanswered>>
  BY DEF renew, sendAgain, outcomes
<1>2. CASE renew(p)
  <2> DEFINE t == [pass[p] EXCEPT !.pc = "await"]
  <2>1. /\ PassOn(p, t) /\ pass[p].pc = "answer" /\ pass[p].result = "401"
        /\ refreshAccessToken(p)
    BY <1>2 DEF renew
  <2>2. Sound(t) /\ t.pc = "await" /\ t.seen = pass[p].seen /\ Done(t) = Done(pass[p])
    BY <1>0, <2>1, ItemDenied
  <2> HIDE DEF t
  <2>3. Goes(pass[p], t)
    BY <2>1, <2>2 DEF Goes, Holds
  <2>4. QueueGoesOn /\ pass'[p] = t /\ \A q \in Passes : q # p => pass'[q] = pass[q]
    BY <1>1, <2>1, <2>3, PassQuiet
  <2>5. Denied(p)
    BY <2>1, <2>2, <2>4 DEF Denied, Waits
  <2> QED
    BY <2>4, <2>5
<1>3. CASE sendAgain(p)
  <2> DEFINE t == IF awaits[p] = "renewed"
                  THEN [pass[p] EXCEPT !.pc = "sent", !.token = access, !.retried = TRUE,
                                       !.result = "none"]
                  ELSE After(pass[p], TRUE)
  <2>1. PassOn(p, t) /\ pass[p].pc = "await" /\ Resume(p)
    BY <1>3 DEF sendAgain
  <2>2. pass[p].todo # <<>>
    BY <1>0, <2>1 DEF Sound
  <2>3. /\ Sound(t) /\ t.pc \in {"sent", "loop"} /\ t.seen = pass[p].seen
        /\ Done(t) = Done(pass[p])
    <3>1. CASE awaits[p] = "renewed"
      <4>1. pass[p] \in PassRecords
        BY <1>0 DEF Sound
      <4>2. t \in PassRecords
        BY <3>1, <4>1 DEF PassRecords, Results
      <4>3. /\ t.pc = "sent" /\ t.seen = pass[p].seen /\ t.todo = pass[p].todo
            /\ t.left = pass[p].left
        BY <3>1, <4>1 DEF PassRecords
      <4> QED
        BY <1>0, <2>1, <2>2, <4>2, <4>3, ItemSent
    <3>2. CASE awaits[p] # "renewed"
      <4>1. t = After(pass[p], TRUE)
        BY <3>2
      <4> HIDE DEF t
      <4> QED
        BY <1>0, <2>1, <4>1, ItemHeard
    <3> QED
      BY <3>1, <3>2
  <2> HIDE DEF t
  <2>4. Goes(pass[p], t)
    BY <2>1, <2>3 DEF Goes, Holds
  <2>5. QueueGoesOn /\ pass'[p] = t /\ \A q \in Passes : q # p => pass'[q] = pass[q]
    BY <1>1, <2>1, <2>4, PassQuiet
  <2>6. Resumed(p)
    BY <2>1, <2>3, <2>5 DEF Resumed, Waits
  <2> QED
    BY <2>5, <2>6
<1> QED
  BY <1>2, <1>3

(***************************************************************************)
(* Every step of the specification.                                        *)
(***************************************************************************)
IndInv == SessionInv /\ SessionTrueInv /\ Settings /\ QueueInv /\ QueueTrueInv

LEMMA SettingsKept ==
    ASSUME Settings, applied \in [Items -> 0 .. 2], Next,
           \A p \in Passes : pass[p].pc = "sent" => Item(p) \in Items
    PROVE  Settings'
<1>0. MaxInterrupts \in Nat /\ MaxFaults \in Nat
  BY QueueAssumption
<1>1. ASSUME NEW i \in Items, enqueueRead(i) \/ enqueueSyncItem(i) PROVE Settings'
  BY <1>1 DEF enqueueRead, enqueueSyncItem, Settings, outcomes
<1>2. ASSUME NEW p \in Passes,
             \/ getSyncQueue(p) \/ keepRest(p) \/ processSyncItem(p) \/ hear(p) \/ renew(p)
             \/ sendAgain(p) \/ replaceSyncQueue(p)
      PROVE  Settings'
  BY <1>2 DEF getSyncQueue, keepRest, processSyncItem, hear, renew, sendAgain, replaceSyncQueue,
              PassOn, Settings, outcomes
<1>3. ASSUME NEW p \in Passes, serve(p) PROVE Settings'
  BY <1>3 DEF serve, Hears, PassOn, Settings, outcomes
<1>4. ASSUME Lose PROVE faults' \in 0 .. MaxFaults
  BY <1>0, <1>4 DEF Lose, Settings
<1>5. ASSUME NEW p \in Passes, requestLost(p) \/ refreshLost(p) PROVE Settings'
  <2>1. Lose /\ UNCHANGED <<network, answered, disturbed, interrupts>> /\ unanswered' \in BOOLEAN
    BY <1>5 DEF requestLost, refreshLost, outcomes, Settings
  <2> QED
    BY <1>4, <2>1 DEF Settings
<1>6. ASSUME SessionStep PROVE Settings'
  BY <1>6 DEF SessionStep, queueVars, outcomes, Settings
<1>7. ASSUME Interrupt \/ UNCHANGED interrupts PROVE interrupts' \in 0 .. MaxInterrupts
  BY <1>0, <1>7 DEF Interrupt, Settings
<1>8. ASSUME GoOffline \/ GoOnline PROVE Settings'
  <2>1. /\ Interrupt \/ UNCHANGED interrupts
        /\ network' \in {"online", "offline"} /\ UNCHANGED <<answered, disturbed, unanswered, faults>>
    BY <1>8 DEF GoOffline, GoOnline, outcomes
  <2> QED
    BY <1>7, <2>1 DEF Settings
<1>9. ASSUME Killed PROVE Settings'
  <2>1. faults' \in 0 .. MaxFaults
    BY <1>0, <1>9 DEF Killed, Settings
  <2>2. /\ network' = "online" /\ unanswered' \in BOOLEAN
        /\ UNCHANGED <<answered, disturbed, interrupts>>
    BY <1>9 DEF Killed, outcomes
  <2> QED
    BY <2>1, <2>2 DEF Settings
<1> QED
  BY <1>1, <1>2, <1>3, <1>5, <1>6, <1>8, <1>9 DEF Next, PassStep

\* Each action, with what it does to the queue and to the session.
LEMMA StepGoesOn ==
    ASSUME IndInv, [Next]_vars
    PROVE  IndInv' /\ BoxStep
<1>0. /\ SessionInv /\ SessionTrueInv /\ Settings /\ QueueInv /\ QueueTrueInv
      /\ pass \in [Passes -> PassRecords] /\ access \in Access
  BY DEF IndInv, QueueInv, SessionInv, SessionTypeOK
<1>1. ASSUME QueueGoesOn, SessionMoves, Next PROVE IndInv' /\ BoxStep
  <2>1. applied \in [Items -> 0 .. 2] /\ \A p \in Passes : pass[p].pc = "sent" => Item(p) \in Items
    <3>1. \A p \in Passes : pass[p].pc = "sent" => pass[p].todo # <<>>
      BY <1>0, PassKnown DEF Sound
    <3> QED
      BY <1>0, <3>1, InHand DEF QueueInv
  <2>2. Settings'
    BY <1>0, <1>1, <2>1, SettingsKept
  <2> QED
    BY <1>0, <1>1, <2>2, SessionGoesOn DEF QueueGoesOn, IndInv
<1>2. ASSUME NEW i \in Items, enqueueRead(i) \/ enqueueSyncItem(i) PROVE QueueGoesOn /\ SessionMoves
  <2>1. UNCHANGED sessionVars /\ pass' = pass
    BY <1>2 DEF enqueueRead, enqueueSyncItem
  <2> QED
    BY <1>0, <1>2, <2>1, TapGoesOn DEF SessionMoves, SameWaits, Waits
<1>3. ASSUME NEW p \in Passes, NEW t, pass' = [pass EXCEPT ![p] = t], ~(pass[p].pc = "await"),
             ~(t.pc = "await"), UNCHANGED sessionVars
      PROVE  SessionMoves
  <2>1. pass'[p] = t /\ \A q \in Passes : q # p => pass'[q] = pass[q]
    BY <1>0, <1>3
  <2>2. SameWaits
    BY <1>3, <2>1 DEF SameWaits, Waits
  <2> QED
    BY <1>3, <2>2 DEF SessionMoves
<1>4. ASSUME NEW p \in Passes, getSyncQueue(p) PROVE QueueGoesOn /\ SessionMoves
  <2> DEFINE s == [pass[p] EXCEPT !.pc = "loop", !.seen = queue, !.todo = queue]
             t == IF queue = <<>> THEN NoPass ELSE s
  <2>1. pass' = [pass EXCEPT ![p] = t] /\ pass[p].pc = "read" /\ UNCHANGED sessionVars
    BY <1>4 DEF getSyncQueue, PassOn
  <2>2. ~(NoPass.pc = "await")
    BY FreshPass
  <2>3. pass[p] \in PassRecords
    BY <1>0
  <2>4. s.pc = "loop"
    BY <2>3 DEF PassRecords
  <2>5. ~(t.pc = "await")
    BY <2>2, <2>4
  <2> HIDE DEF s, t
  <2>6. SessionMoves
    BY <1>3, <2>1, <2>5
  <2> QED
    BY <1>0, <1>4, <2>6, StartGoesOn
<1>5. ASSUME NEW p \in Passes, keepRest(p) \/ processSyncItem(p) \/ hear(p) \/ serve(p)
      PROVE  QueueGoesOn /\ SessionMoves
  <2>1. UNCHANGED sessionVars
    BY <1>5 DEF keepRest, processSyncItem, hear, serve
  <2>2. QueueGoesOn /\ SameWaits
    BY <1>0, <1>5, SendingGoesOn, ServingGoesOn
  <2> QED
    BY <2>1, <2>2 DEF SessionMoves
<1>6. ASSUME NEW p \in Passes, requestLost(p) PROVE QueueGoesOn /\ SessionMoves
  <2> DEFINE t == Answered(pass[p], "error")
  <2>1. /\ pass' = [pass EXCEPT ![p] = t] /\ pass[p].pc \in {"sent", "answer"}
        /\ UNCHANGED sessionVars
    BY <1>6 DEF requestLost
  <2>2. t.pc = "answer"
    BY <1>0, <2>1 DEF Answered, PassRecords
  <2> HIDE DEF t
  <2>3. SessionMoves
    BY <1>3, <2>1, <2>2
  <2> QED
    BY <1>0, <1>6, <2>3, LossGoesOn
<1>7. ASSUME NEW p \in Passes, replaceSyncQueue(p) PROVE QueueGoesOn /\ SessionMoves
  <2>1. /\ pass' = [pass EXCEPT ![p] = NoPass] /\ pass[p].pc = "loop" /\ UNCHANGED sessionVars
    BY <1>7 DEF replaceSyncQueue
  <2>2. ~(NoPass.pc = "await")
    BY FreshPass
  <2>3. SessionMoves
    BY <1>3, <2>1, <2>2
  <2> QED
    BY <1>0, <1>7, <2>3, StoringGoesOn
<1>8. ASSUME NEW p \in Passes, renew(p) \/ sendAgain(p) PROVE QueueGoesOn /\ SessionMoves
  BY <1>0, <1>8, DenialGoesOn DEF SessionMoves
<1>9. ASSUME UNCHANGED <<queue, tap, pass, applied, disturbed, unanswered>>
      PROVE  QueueGoesOn /\ SameWaits
  <2>1. \A p \in Passes : Goes(pass[p], pass'[p])
    BY <1>0, <1>9, PassKnown DEF Goes
  <2>2. pass' = [p \in Passes |-> pass'[p]]
    BY <1>0, <1>9
  <2>3. Quiet
    BY <1>9, <2>1, <2>2 DEF Quiet
  <2> QED
    BY <1>0, <1>9, <2>3, QuietGoesOn DEF SameWaits, Waits
<1>10. ASSUME NEW p \in Passes, refreshLost(p) PROVE QueueGoesOn /\ SessionMoves
  BY <1>9, <1>10 DEF refreshLost, outcomes, SessionMoves
<1>11. ASSUME SessionStep PROVE QueueGoesOn /\ SessionMoves
  <2>1. /\ UNCHANGED <<queue, tap, pass, applied, disturbed, unanswered>>
        /\ (\E p \in Passes : RefreshStep(p)) \/ AccessExpires \/ SignIn
    BY <1>11 DEF SessionStep, queueVars, outcomes
  <2> QED
    BY <1>9, <2>1 DEF SessionMoves
<1>12. ASSUME GoOffline \/ GoOnline PROVE QueueGoesOn /\ SessionMoves
  <2>1. UNCHANGED sessionVars
    BY <1>12 DEF GoOffline, GoOnline
  <2> QED
    BY <1>0, <1>12, <2>1, NetworkGoesOn DEF SessionMoves
<1>13. ASSUME Killed PROVE QueueGoesOn /\ SessionMoves
  BY <1>0, <1>13, KillGoesOn DEF SessionMoves
<1>14. CASE UNCHANGED vars
  <2>1. /\ UNCHANGED <<queue, tap, pass, applied, disturbed, unanswered>> /\ UNCHANGED sessionVars
        /\ UNCHANGED <<network, answered, interrupts, faults>>
    BY <1>14 DEF vars, queueVars, outcomes
  <2>2. Settings'
    BY <1>0, <2>1 DEF Settings
  <2> QED
    BY <1>0, <1>9, <2>1, <2>2, SessionGoesOn DEF QueueGoesOn, IndInv, SessionMoves
<1>15. CASE Next
  <2>1. QueueGoesOn /\ SessionMoves
    <3>1. ASSUME NEW p \in Passes, PassStep(p) PROVE QueueGoesOn /\ SessionMoves
      BY <1>4, <1>5, <1>6, <1>7, <1>8, <1>10, <3>1 DEF PassStep
    <3> QED
      BY <1>2, <1>11, <1>12, <1>13, <1>15, <3>1 DEF Next
  <2> QED
    BY <1>1, <1>15, <2>1
<1> QED
  BY <1>14, <1>15

LEMMA InitiallyGood == Init => IndInv /\ Box!OutboxInit
<1> SUFFICES ASSUME Init PROVE IndInv /\ Box!OutboxInit
  OBVIOUS
<1>1. /\ access = "fresh" /\ stored = 1 /\ live = {1} /\ issued = 1
      /\ refresh = [r \in Passes |-> NoRefresh] /\ awaits = [r \in Passes |-> NotWaiting]
      /\ troubled = FALSE /\ expiries = MaxExpiries
  BY DEF Init, SessionInit, Passes
<1>2. /\ network = "offline" /\ queue = <<>> /\ tap = [i \in Items |-> [pc |-> "none"]]
      /\ pass = [p \in Passes |-> NoPass] /\ applied = [i \in Items |-> 0] /\ answered = {}
      /\ disturbed = FALSE /\ unanswered = FALSE
      /\ interrupts = MaxInterrupts /\ faults = MaxFaults
  BY DEF Init
<1>3. SessionInv
  <2>1. refresh \in [Passes -> Refreshes]
    BY <1>1 DEF NoRefresh, Refreshes
  <2>2. stored \in 0 .. issued /\ issued \in Nat /\ live \subseteq 1 .. issued /\ access \in Access
        /\ expiries \in 0 .. MaxExpiries
    BY <1>1, SessionAssumption DEF Access
  <2>3. SessionTypeOK
    BY <1>1, <2>1, <2>2 DEF SessionTypeOK, Passes
  <2>4. Refreshing = {}
    BY <1>1 DEF Refreshing, Passes, NoRefresh
  <2>5. \A r \in Passes : RenewalKnown(r) /\ awaits[r] = NotWaiting
    BY <1>1 DEF RenewalKnown, NoRefresh
  <2> QED
    BY <2>3, <2>4, <2>5 DEF SessionInv, OneRenewal
<1>4. SessionTrueInv
  BY <1>1 DEF SessionTrueInv, RenewalTrue, NoRefresh
<1>5. Settings
  <2>1. interrupts \in 0 .. MaxInterrupts /\ faults \in 0 .. MaxFaults
    BY <1>2, QueueAssumption
  <2>2. /\ network \in {"online", "offline"} /\ answered \subseteq Items
        /\ disturbed \in BOOLEAN /\ unanswered \in BOOLEAN
    BY <1>2
  <2> QED
    BY <2>1, <2>2 DEF Settings
<1>6. \A p \in Passes : /\ Sound(pass[p]) /\ ~Holds(pass[p]) /\ pass[p].seen = <<>>
                        /\ Done(pass[p]) = {}
  BY <1>2, FreshPass DEF Holds
<1>7. QueueInv
  <2>1. tap \in [Items -> Taps] /\ applied \in [Items -> 0 .. 2]
    BY <1>2 DEF Taps
  <2>2. \A i \in Items : TapInv(i)
    BY <1>2 DEF TapInv
  <2>3. \A p \in Passes : PassInv(p)
    BY <1>6, EmptyList DEF PassInv
  <2>4. pass \in [Passes -> PassRecords]
    BY <1>2, <1>6 DEF Sound
  <2> QED
    BY <1>2, <2>1, <2>2, <2>3, <2>4, EmptyList DEF QueueInv
<1>8. QueueTrueInv
  BY <1>2, <1>6, EmptyList DEF QueueTrueInv
<1>9. Box!OutboxInit
  <2>1. applied \in [Items -> {0}] /\ ToSet(queue) = {}
    BY <1>2, EmptyList
  <2>2. \A i \in DOMAIN applied : applied[i] = 0
    BY <2>1
  <2> QED
    BY <2>1, <2>2 DEF Box!OutboxInit
<1> QED
  BY <1>3, <1>4, <1>5, <1>7, <1>8, <1>9 DEF IndInv

\* The inductive invariant of session and queue together.
THEOREM InvariantKept == Spec => []IndInv
<1>1. Init => IndInv
  BY InitiallyGood
<1>2. IndInv /\ [Next]_vars => IndInv'
  BY StepGoesOn
<1> QED
  BY <1>1, <1>2, PTL DEF Spec

\* The variables of the device, its passes and the server keep their types, and no
\* list ever names an item twice, whatever passes and taps write over one another.
THEOREM TypeCorrect == Spec => []TypeOK
<1>1. IndInv => TypeOK
  BY DEF IndInv, SessionInv, Settings, QueueInv, TypeOK
<1> QED
  BY <1>1, InvariantKept, PTL

\* As long as every renewal is answered, renewals never sign the device out: it
\* holds or is about to be given a refresh token that is not revoked.
THEOREM SessionIsKept == Spec => []SessionKept
<1>1. IndInv => SessionKept
  <2> SUFFICES ASSUME IndInv, ~troubled, stored \notin live
               PROVE  \E r \in Refreshing : \/ refresh[r].pc = "revoked"
                                            \/ refresh[r].token \in live
    BY DEF SessionKept
  <2>1. PICK r \in Passes : r \in Refreshing
    BY DEF IndInv, SessionTrueInv, Refreshing, Passes
  <2>2. refresh[r].pc \in {"idle"} \cup Renewing /\ refresh[r].pc # "idle"
    BY <2>1, RenewalFields DEF IndInv, SessionInv, Refreshing
  <2>3. RenewalTrue(r)
    BY DEF IndInv, SessionTrueInv
  <2> QED
    BY <2>1, <2>2, <2>3 DEF RenewalTrue, Renewing
<1> QED
  BY <1>1, InvariantKept, PTL

\* Until a pass or a tap overlaps a pass, every step of the device and of the server
\* is a step of the outbox or leaves it alone: an item leaves the list when the
\* server has carried it out and not before, and it is carried out again only after
\* an answer was lost.
THEOREM OutboxImplemented == Spec => OutboxKept
<1>1. Init => Box!OutboxInit
  BY InitiallyGood
<1>2. IndInv /\ [Next]_vars
      => [~disturbed' => Box!OutboxNext \/ UNCHANGED Box!outboxVars]_vars
  BY StepGoesOn DEF BoxStep
<1> QED
  BY <1>1, <1>2, InvariantKept, PTL DEF Spec, OutboxKept

=============================================================================
