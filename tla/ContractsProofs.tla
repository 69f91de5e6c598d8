---------------------------- MODULE ContractsProofs ----------------------------
(***************************************************************************)
(* Theorems about Contracts, for every set of handlers, of contracts and   *)
(* of dates, and every number of requests.                                 *)
(***************************************************************************)
EXTENDS Contracts, SumTheorems

(***************************************************************************)
(* The inductive invariants.                                               *)
(***************************************************************************)
Existing == {k \in Contracts : ContractExists(k)}

\* What type correctness needs: only contracts that exist have terms to change,
\* and everything that is counted is finite.
TypeInv == /\ TypeOK
           /\ IsFiniteSet(Existing)
           /\ \A k \in Contracts : /\ ContractExists(k) => row[k].term \in Terms
                                   /\ IsFiniteSet(versions[k])

RenewalComing(c) == Renewing(c) \/ (op[c].pc = "write" /\ op[c].act = "renew")

\* Under any overlap: a contract without a row has no history, whoever creates
\* one is the only one to know of it, and a renewal was checked for its order.
RowsInv ==
    /\ \A k \in Contracts : ~ContractExists(k) => versions[k] = {}
    /\ \A c \in Clients :
          /\ op[c].pc = "insert" =>
                /\ row[op[c].k].status = "NEW"
                /\ InOrder(op[c].term)
                /\ \A d \in Clients : d # c /\ op[d].pc = "insert" => op[d].k # op[c].k
          /\ op[c].pc \in {"first", "write", "next", "version"} => row[op[c].k].status # "NEW"
          /\ RenewalComing(c) => op[c].to \in Terms /\ InOrder(op[c].to)

\* Under any overlap: a version number is at most one beyond the history.
VersionInv ==
    /\ VersionsGapless
    /\ \A c \in Clients :
          op[c].pc = "version" /\ ContractExists(op[c].k) =>
              op[c].n \in 1 .. Cardinality(versions[op[c].k]) + 1

\* A handler at o has still to tell of what in the history of k.
Tells(o, k, what) == /\ o.pc \in {"first", "next", "version"}
                     /\ o.k = k
                     /\ what = IF o.pc = "first" THEN "created" ELSE o.entry.what

ToTell(k, what) == {c \in Clients : Tells(op[c], k, what)}

\* How often the history of k tells of what, or will.
Happened(k, what) == Count(k, what) + Cardinality(ToTell(k, what))

\* What happened to a contract is in its history or about to be.
StoryOf(k) ==
    /\ Happened(k, "created") = 1
    /\ Happened(k, "document") = row[k].documents
    /\ row[k].status # "UNDER_REVIEW"
    /\ row[k].status = "DRAFT" =>
          \A what \in {"activated", "terminated", "expired"} : Happened(k, what) = 0
    /\ row[k].status = "ACTIVE" => Happened(k, "activated") > 0
    /\ row[k].status = "TERMINATED" => Happened(k, "terminated") > 0
    /\ row[k].status = "EXPIRED" => Happened(k, "expired") > 0
    /\ \A c \in Clients : RenewalComing(c) /\ op[c].k = k => Happened(k, "activated") > 0

\* Under any overlap: no version is missing of a contract that no handler died on.
HistoryInv ==
    /\ \A k \in Contracts, what \in Summaries : IsFiniteSet(ToTell(k, what))
    /\ \A k \in Contracts : ContractExists(k) /\ k \notin unrecorded => StoryOf(k)

\* What a handler that was not overtaken remembers is the truth.
Fresh(c) ==
    /\ op[c].pc = "insert" => op[c].number = countByOrganisation(op[c].k) + 1
    /\ op[c].pc = "write" =>
          /\ row[op[c].k].status \in Demands(op[c].act)
          /\ op[c].act = "update" => EndsAfterStart(row[op[c].k].term, op[c].to)
          /\ op[c].act = "renew" =>
                \E v \in versions[op[c].k] : v.entry = Entry("ended", row[op[c].k].term)
    /\ Renewing(c) => /\ row[op[c].k].status \in Demands("renew")
                      /\ op[c].entry = Entry("ended", row[op[c].k].term)

\* The numbers of an organisation that has deleted no contract do not run ahead
\* of its count.
NumbersCounted ==
    \A k \in Contracts :
        /\ ContractExists(k)
        /\ \A j \in SameOrganisation(k) : row[j].status # "DELETED"
        => row[k].number <= countByOrganisation(k)

UnoverlappedInv ==
    ~staleCommit => /\ \A k \in Contracts : ContractExists(k) => InOrder(row[k].term)
                    /\ NumbersCounted
                    /\ \A c \in Clients \ overtaken : Fresh(c)

(***************************************************************************)
(* Type correctness.                                                       *)
(***************************************************************************)
LEMMA TypeOfRows ==
    ASSUME TypeInv, NEW k \in Contracts
    PROVE  /\ row[k] \in Rows
           /\ row[k].status \in ContractStatus \cup NoRow
           /\ row[k].number \in Nat
           /\ row[k].term \in Terms \cup {NoTerm}
           /\ row[k].documents \in Nat
           /\ ContractExists(k) => row[k].term \in Terms
           /\ versions[k] \subseteq Versions /\ IsFiniteSet(versions[k])
BY DEF TypeInv, TypeOK, Rows

\* A handler's place in its code tells what it remembers.
LEMMA TypeOfOps ==
    ASSUME TypeInv, NEW c \in Clients
    PROVE  /\ op[c].pc \in {"idle", "insert", "first", "write", "next", "version"}
           /\ op[c].pc # "idle" => op[c].k \in Contracts /\ op[c] # Idle
           /\ op[c].pc = "idle" => op[c] = Idle
           /\ op[c].pc = "insert" => op[c].number \in Nat /\ op[c].term \in Terms
           /\ op[c].pc = "write" => op[c].act \in Acts
           /\ op[c].pc \in {"write", "next", "version"} => op[c].to \in Changes
           /\ op[c].pc \in {"next", "version"} =>
                 op[c].entry \in Entries /\ op[c].entry.what \in Summaries
           /\ op[c].pc = "version" => op[c].n \in Nat
<1>1. op[c] \in Ops
  BY DEF TypeInv, TypeOK
<1>2. \A e \in Entries : e.what \in Summaries
  BY DEF Entries
<1> QED
  BY <1>1, <1>2 DEF Ops, Idle

LEMMA OpsMade ==
    ASSUME NEW k \in Contracts
    PROVE  /\ Idle \in Ops
           /\ [pc |-> "first", k |-> k] \in Ops
           /\ \A number \in Nat, term \in Terms :
                 [pc |-> "insert", k |-> k, term |-> term, number |-> number] \in Ops
           /\ \A act \in Acts, to \in Changes :
                 [pc |-> "write", act |-> act, k |-> k, to |-> to] \in Ops
           /\ \A entry \in Entries, to \in Changes : Record(k, entry, to) \in Ops
           /\ \A entry \in Entries, to \in Changes, n \in Nat :
                 [pc |-> "version", k |-> k, entry |-> entry, to |-> to, n |-> n] \in Ops
BY DEF Ops, Record

LEMMA Dated ==
    /\ Terms \subseteq Changes /\ NothingMore \in Changes
    /\ \A term \in Terms, to \in Changes : Changed(term, to) \in Terms
    /\ \A term \in Terms, to \in Terms : Changed(term, to) = to
    /\ \A what \in Summaries, term \in Terms \cup {NoTerm} : Entry(what, term) \in Entries
    /\ NoTerm \notin Terms
<1>1. Terms \subseteq Changes
  BY DEF Terms, Changes
<1>2. NothingMore \in [{} -> Dates] /\ {} \in SUBSET Ends
  BY DEF NothingMore
<1>3. NothingMore \in Changes
  BY <1>2 DEF Changes
<1>4. ASSUME NEW term \in Terms, NEW to \in Changes PROVE Changed(term, to) \in Terms
  <2>1. PICK D \in SUBSET Ends : to \in [D -> Dates]
    BY DEF Changes
  <2> QED
    BY <2>1 DEF Changed, Terms
<1>5. ASSUME NEW term \in Terms, NEW to \in Terms PROVE Changed(term, to) = to
  BY DEF Changed, Terms
<1>6. \A what \in Summaries, term \in Terms \cup {NoTerm} : Entry(what, term) \in Entries
  BY DEF Entry, Entries
<1>7. NoTerm \notin Terms
  <2>1. "start" \in Ends /\ 0 \notin Dates
    BY ContractsAssumption DEF Ends
  <2> QED
    BY <2>1 DEF NoTerm, Terms
<1> QED
  BY <1>1, <1>3, <1>4, <1>5, <1>6, <1>7

\* What is counted comes to a number.
LEMMA Counted ==
    ASSUME TypeInv, NEW k \in Contracts
    PROVE  /\ countByOrganisation(k) \in Nat
           /\ Cardinality(versions[k]) \in Nat
           /\ IsFiniteSet(Numbers(k)) /\ Numbers(k) \subseteq Nat
           /\ getNextVersionNumber(k) \in Nat
<1>1. countByOrganisation(k) \in Nat
  <2> DEFINE S == {j \in SameOrganisation(k) : ContractExists(j)}
  <2>1. S \in SUBSET Existing
    BY DEF Existing, SameOrganisation
  <2> HIDE DEF S
  <2>2. IsFiniteSet(S)
    BY <2>1, FS_Subset DEF TypeInv
  <2>3. Cardinality(S) \in Nat
    BY <2>2, FS_CardinalityType
  <2> QED
    BY <2>3 DEF countByOrganisation, S
<1>2. Cardinality(versions[k]) \in Nat
  BY TypeOfRows, FS_CardinalityType
<1>3. Numbers(k) \subseteq Nat
  BY TypeOfRows DEF Numbers, Versions
<1>4. IsFiniteSet(Numbers(k))
  <2> DEFINE f == [v \in versions[k] |-> v.n]
  <2>1. f \in Surjection(versions[k], Numbers(k))
    BY DEF Surjection, Numbers
  <2> HIDE DEF f
  <2> QED
    BY <2>1, TypeOfRows, FS_Surjection
<1>5. getNextVersionNumber(k) \in Nat
  <2>1. CASE versions[k] = {}
    BY <2>1 DEF getNextVersionNumber
  <2>2. CASE versions[k] # {}
    <3>1. Numbers(k) # {} /\ Numbers(k) \in SUBSET Int
      BY <1>3, <2>2 DEF Numbers
    <3>2. Max(Numbers(k)) \in Numbers(k)
      BY <1>4, <3>1, MaxIsGreatest
    <3> QED
      BY <1>3, <2>2, <3>2 DEF getNextVersionNumber
  <2> QED
    BY <2>1, <2>2
<1> QED
  BY <1>1, <1>2, <1>3, <1>4, <1>5

\* A step that leaves the tables as they are.
LEMMA TypeQuiet ==
    ASSUME TypeInv, NEW c \in Clients, NEW o \in Ops, op' = [op EXCEPT ![c] = o], UNCHANGED tables,
           overtaken' \in SUBSET Clients, staleCommit' \in BOOLEAN,
           unrecorded' \in SUBSET Contracts, requests' \in 0 .. MaxRequests
    PROVE  TypeInv'
<1>1. TypeOK'
  BY DEF TypeInv, TypeOK, tables
<1>2. Existing' = Existing
  BY DEF Existing, ContractExists, tables
<1> QED
  BY <1>1, <1>2 DEF TypeInv, ContractExists, tables

\* A step that writes a contract.
LEMMA TypeRow ==
    ASSUME TypeInv, NEW c \in Clients, NEW o \in Ops, NEW readers \in SUBSET Clients,
           Commit(c, o, readers), NEW k \in Contracts, NEW written \in Rows,
           written.status \notin NoRow => written.term \in Terms,
           row' = [row EXCEPT ![k] = written],
           versions' = versions \/ versions' = [versions EXCEPT ![k] = {}]
    PROVE  TypeInv'
<1>1. row' \in [Contracts -> Rows] /\ versions' \in [Contracts -> SUBSET Versions]
  BY DEF TypeInv, TypeOK
<1>2. TypeOK'
  <2>1. op' \in [Clients -> Ops]
    BY DEF Commit, TypeInv, TypeOK
  <2>2. staleCommit' \in BOOLEAN
    BY DEF Commit, TypeInv, TypeOK
  <2>3. overtaken' \in SUBSET Clients
    BY DEF Commit, TypeInv, TypeOK
  <2> QED
    BY <1>1, <2>1, <2>2, <2>3 DEF Commit, TypeInv, TypeOK
<1>3. IsFiniteSet(Existing')
  <2>1. Existing' \in SUBSET (Existing \cup {k})
    BY DEF Existing, ContractExists, TypeInv, TypeOK
  <2>2. IsFiniteSet(Existing \cup {k})
    BY FS_AddElement DEF TypeInv
  <2> QED
    BY <2>1, <2>2, FS_Subset
<1>4. \A j \in Contracts : (row'[j].status \notin NoRow => row'[j].term \in Terms) /\ IsFiniteSet(versions'[j])
  BY FS_EmptySet DEF TypeInv, TypeOK, ContractExists
<1> QED
  BY <1>2, <1>3, <1>4 DEF TypeInv, ContractExists

\* A step that inserts a version.
LEMMA TypeVersion ==
    ASSUME TypeInv, NEW c \in Clients, NEW o \in Ops, Proceed(c, o), op[c].k \in Contracts,
           NEW n \in Nat, NEW entry \in Entries, Inserts(c, n, entry)
    PROVE  TypeInv'
<1> DEFINE k == op[c].k
<1>1. [n |-> n, entry |-> entry] \in Versions
  BY DEF Versions
<1>2. versions' \in [Contracts -> SUBSET Versions]
  BY <1>1 DEF Inserts, TypeInv, TypeOK
<1>3. TypeOK'
  BY <1>2 DEF Proceed, Inserts, TypeInv, TypeOK
<1>4. Existing' = Existing
  BY DEF Existing, ContractExists, Proceed
<1>5. ASSUME NEW j \in Contracts PROVE IsFiniteSet(versions'[j])
  <2>1. IsFiniteSet(versions[j] \cup {[n |-> n, entry |-> entry]})
    BY FS_AddElement DEF TypeInv
  <2> QED
    BY <2>1 DEF Inserts, TypeInv, TypeOK
<1> QED
  BY <1>3, <1>4, <1>5 DEF TypeInv, ContractExists, Proceed

LEMMA TypeInit == Init => TypeInv
<1> SUFFICES ASSUME Init PROVE TypeInv
  OBVIOUS
<1>1. NoContract("NEW") \in Rows /\ NoContract("NEW").status = "NEW"
  BY DEF NoContract, Rows, NoRow
<1>2. TypeOK
  <2>1. row \in [Contracts -> Rows] /\ versions \in [Contracts -> SUBSET Versions] /\ op \in [Clients -> Ops]
    BY <1>1 DEF Init, Ops
  <2>2. requests \in 0 .. MaxRequests
    BY ContractsAssumption DEF Init
  <2> QED
    BY <2>1, <2>2 DEF Init, TypeOK
<1>3. Existing = {} /\ \A k \in Contracts : ~ContractExists(k)
  BY <1>1 DEF Init, Existing, ContractExists, NoRow
<1> QED
  BY <1>2, <1>3, FS_EmptySet DEF Init, TypeInv

LEMMA TypeNext == TypeInv /\ [Next]_vars => TypeInv'
<1> SUFFICES ASSUME TypeInv, [Next]_vars PROVE TypeInv'
  OBVIOUS
<1>1. CASE UNCHANGED vars
  <2>1. Existing' = Existing
    BY <1>1 DEF vars, tables, Existing, ContractExists
  <2> QED
    BY <1>1, <2>1 DEF vars, tables, TypeInv, TypeOK, ContractExists
<1>2. ASSUME NEW c \in Clients, NEW o \in Ops, Begin(c, o) PROVE TypeInv'
  <2>1. requests' \in 0 .. MaxRequests
    BY <1>2, ContractsAssumption DEF Begin, TypeInv, TypeOK
  <2> QED
    BY <1>2, <2>1, TypeQuiet DEF Begin, TypeInv, TypeOK
<1>3. ASSUME NEW c \in Clients, NEW missing \in SUBSET Contracts, Abandon(c, missing) PROVE TypeInv'
  <2>1. Idle \in Ops
    BY DEF Ops
  <2> QED
    BY <1>3, <2>1, TypeQuiet DEF Abandon, TypeInv, TypeOK
<1>4. ASSUME NEW c \in Clients, NEW act \in Acts, NEW k \in Contracts, NEW to \in Changes,
             BeginWrite(c, act, k, to)
      PROVE  TypeInv'
  BY <1>2, <1>4, OpsMade DEF BeginWrite
<1>5. ASSUME NEW c \in Clients, Request(c) PROVE TypeInv'
  <2>1. CASE createRead(c)
    <3>1. PICK k \in Contracts, term \in Terms :
             Begin(c, [pc |-> "insert", k |-> k, term |-> term, number |-> countByOrganisation(k) + 1])
      BY <2>1 DEF createRead
    <3>2. countByOrganisation(k) + 1 \in Nat
      BY Counted
    <3>3. [pc |-> "insert", k |-> k, term |-> term, number |-> countByOrganisation(k) + 1] \in Ops
      BY <3>2, OpsMade
    <3> QED
      BY <1>2, <3>1, <3>3
  <2>2. CASE renewRead(c)
    <3>1. PICK k \in Contracts, to \in Terms : Begin(c, Record(k, Entry("ended", row[k].term), to))
      BY <2>2 DEF renewRead
    <3>2. Entry("ended", row[k].term) \in Entries /\ to \in Changes
      BY Dated, TypeOfRows DEF Summaries
    <3> QED
      BY <1>2, <3>1, <3>2, OpsMade
  <2>3. CASE updateRead(c) \/ deleteRead(c) \/ documentRead(c) \/ statusRead(c)
    BY <1>4, <2>3, Dated DEF updateRead, deleteRead, documentRead, statusRead, Acts, StatusActs
  <2> QED
    BY <1>5, <2>1, <2>2, <2>3 DEF Request
<1>6. ASSUME NEW c \in Clients, NEW act \in Acts, NEW written \in Rows, written.term \in Terms,
             NEW entry \in Entries, Writes(c, act, written, entry)
      PROVE  TypeInv'
  <2>1. op[c].k \in Contracts
    BY <1>6, TypeOfOps DEF Writes
  <2>2. Record(op[c].k, entry, NothingMore) \in Ops
    BY <2>1, OpsMade, Dated
  <2>3. WriteReaders(op[c].k) \in SUBSET Clients
    BY DEF WriteReaders, InFlight
  <2> QED
    BY <1>6, <2>1, <2>2, <2>3, TypeRow DEF Writes
<1>7. ASSUME NEW c \in Clients, create(c) PROVE TypeInv'
  <2> DEFINE written == [status |-> "DRAFT", number |-> op[c].number, term |-> op[c].term, documents |-> 0]
  <2>1. op[c].k \in Contracts /\ written \in Rows /\ written.term \in Terms
    BY <1>7, TypeOfOps DEF create, Rows, ContractStatus
  <2>2. [pc |-> "first", k |-> op[c].k] \in Ops
    BY <2>1, OpsMade
  <2>3. CountReaders(op[c].k) \in SUBSET Clients
    BY DEF CountReaders, InFlight
  <2>4. Commit(c, [pc |-> "first", k |-> op[c].k], CountReaders(op[c].k)) /\ row' = [row EXCEPT ![op[c].k] = written]
        /\ versions' = versions
    BY <1>7 DEF create
  <2> HIDE DEF written
  <2> QED
    BY <2>1, <2>2, <2>3, <2>4, TypeRow
<1>8. ASSUME NEW c \in Clients, update(c) \/ renew(c) \/ activate(c) \/ terminate(c) \/ expire(c)
      PROVE  TypeInv'
  <2>1. op[c].k \in Contracts /\ ContractExists(op[c].k) /\ op[c].to \in Changes
    BY <1>8, TypeOfOps DEF update, renew, activate, terminate, expire, Writes
  <2>2. Found(c) \in Rows /\ Found(c).term \in Terms /\ Changed(Found(c).term, op[c].to) \in Terms
    BY <2>1, TypeOfRows, Dated DEF Found
  <2>3. \A st \in ContractStatus, term \in Terms :
           /\ [Found(c) EXCEPT !.status = st] \in Rows /\ [Found(c) EXCEPT !.status = st].term \in Terms
           /\ [Found(c) EXCEPT !.status = st, !.term = term] \in Rows
           /\ [Found(c) EXCEPT !.status = st, !.term = term].term \in Terms
    BY <2>2 DEF Rows
  <2>4. \A term \in Terms : [Found(c) EXCEPT !.term = term] \in Rows /\ [Found(c) EXCEPT !.term = term].term \in Terms
    BY <2>2 DEF Rows
  <2>5. /\ \A what \in {"updated", "activated", "terminated", "expired"} : Entry(what, NoTerm) \in Entries
        /\ \A term \in Terms : Entry("renewed", term) \in Entries
    BY Dated DEF Summaries
  <2>6. {"ACTIVE", "TERMINATED", "EXPIRED"} \subseteq ContractStatus
    BY DEF ContractStatus
  <2>7. CASE update(c)
    <3>1. Writes(c, "update", [Found(c) EXCEPT !.term = Changed(Found(c).term, op[c].to)], Entry("updated", NoTerm))
      BY <2>7 DEF update
    <3> DEFINE written == [Found(c) EXCEPT !.term = Changed(Found(c).term, op[c].to)]
    <3>2. "update" \in Acts /\ written \in Rows /\ written.term \in Terms /\ Entry("updated", NoTerm) \in Entries
      BY <2>2, <2>4, <2>5 DEF Acts
    <3>3. Writes(c, "update", written, Entry("updated", NoTerm))
      BY <3>1
    <3> HIDE DEF written
    <3> QED
      BY <1>6, <3>2, <3>3
  <2>8. CASE renew(c)
    <3>1. Writes(c, "renew", [Found(c) EXCEPT !.status = "ACTIVE", !.term = Changed(Found(c).term, op[c].to)],
                 Entry("renewed", Changed(Found(c).term, op[c].to)))
      BY <2>8 DEF renew
    <3> QED
      BY <1>6, <2>2, <2>3, <2>5, <2>6, <3>1 DEF Acts
  <2>9. \A act \in StatusActs, st \in {"ACTIVE", "TERMINATED", "EXPIRED"},
           what \in {"updated", "activated", "terminated", "expired"} :
           Writes(c, act, [Found(c) EXCEPT !.status = st], Entry(what, NoTerm)) => TypeInv'
    <3> TAKE act \in StatusActs, st \in {"ACTIVE", "TERMINATED", "EXPIRED"},
             what \in {"updated", "activated", "terminated", "expired"}
    <3> DEFINE written == [Found(c) EXCEPT !.status = st]
    <3>1. act \in Acts /\ written \in Rows /\ written.term \in Terms /\ Entry(what, NoTerm) \in Entries
      BY <2>2, <2>3, <2>5, <2>6 DEF Acts
    <3> HIDE DEF written
    <3>2. Writes(c, act, written, Entry(what, NoTerm)) => TypeInv'
      BY <1>6, <3>1
    <3> QED
      BY <3>2 DEF written
  <2>10. CASE activate(c) \/ terminate(c) \/ expire(c)
    BY <2>9, <2>10 DEF activate, terminate, expire, StatusActs
  <2> QED
    BY <1>8, <2>7, <2>8, <2>10
<1>9. ASSUME NEW c \in Clients, uploadDocument(c) PROVE TypeInv'
  <2> DEFINE k == op[c].k
             written == [row[k] EXCEPT !.documents = @ + 1]
             o == Record(k, Entry("document", NoTerm), NothingMore)
  <2>1. k \in Contracts /\ ContractExists(k)
    BY <1>9, TypeOfOps DEF uploadDocument
  <2>2. written \in Rows /\ written.term \in Terms
    BY <2>1, TypeOfRows DEF Rows
  <2>3. o \in Ops
    BY <2>1, OpsMade, Dated DEF Summaries
  <2>4. Commit(c, o, {}) /\ row' = [row EXCEPT ![k] = written] /\ versions' = versions
    BY <1>9, <2>1 DEF uploadDocument, TypeInv, TypeOK
  <2> HIDE DEF written, o
  <2> QED
    BY <2>1, <2>2, <2>3, <2>4, TypeRow
<1>10. ASSUME NEW c \in Clients, delete(c) PROVE TypeInv'
  <2>1. op[c].k \in Contracts
    BY <1>10, TypeOfOps DEF delete
  <2>2. NoContract("DELETED") \in Rows /\ NoContract("DELETED").status \in NoRow
    BY DEF NoContract, Rows, NoRow
  <2>3. CountReaders(op[c].k) \cup WriteReaders(op[c].k) \in SUBSET Clients
    BY DEF CountReaders, WriteReaders, InFlight
  <2> QED
    BY <1>10, <2>1, <2>2, <2>3, OpsMade, TypeRow DEF delete
<1>11. ASSUME NEW c \in Clients, nextVersion(c) PROVE TypeInv'
  <2>1. op[c].k \in Contracts /\ op[c].entry \in Entries /\ op[c].to \in Changes
    BY <1>11, TypeOfOps DEF nextVersion
  <2>2. getNextVersionNumber(op[c].k) \in Nat
    BY <2>1, Counted
  <2>3. [pc |-> "version", k |-> op[c].k, entry |-> op[c].entry, to |-> op[c].to,
         n |-> getNextVersionNumber(op[c].k)] \in Ops
    BY <2>1, <2>2, OpsMade
  <2> QED
    BY <1>11, <2>3, TypeQuiet DEF nextVersion, Proceed, tables, TypeInv, TypeOK
<1>12. ASSUME NEW c \in Clients, createVersion(c) PROVE TypeInv'
  <2>1. op[c].k \in Contracts /\ op[c].entry \in Entries /\ op[c].to \in Changes /\ op[c].n \in Nat
    BY <1>12, TypeOfOps DEF createVersion
  <2>2. [pc |-> "write", act |-> "renew", k |-> op[c].k, to |-> op[c].to] \in Ops /\ Idle \in Ops
    BY <2>1, OpsMade DEF Acts
  <2> QED
    BY <1>12, <2>1, <2>2, TypeVersion DEF createVersion
<1>13. ASSUME NEW c \in Clients, createFirstVersion(c) PROVE TypeInv'
  <2>1. op[c].k \in Contracts /\ Entry("created", NoTerm) \in Entries
    BY <1>13, TypeOfOps, Dated DEF createFirstVersion, Summaries
  <2> QED
    BY <1>13, <2>1, OpsMade, TypeVersion DEF createFirstVersion
<1>14. ASSUME NEW c \in Clients, VersionTaken(c) \/ NumberRefused(c) \/ WriteFails(c) \/ Crash(c)
       PROVE  TypeInv'
  <2>1. op[c].pc # "idle" => op[c].k \in Contracts
    BY TypeOfOps
  <2> QED
    BY <1>3, <1>14, <2>1 DEF VersionTaken, NumberRefused, WriteFails, Crash
<1> QED
  BY <1>1, <1>5, <1>7, <1>8, <1>9, <1>10, <1>11, <1>12, <1>13, <1>14 DEF Next, Continue

\* The tables, the handlers and the history variables keep their types, whatever
\* overlaps and dies; every contract that exists has a term.
THEOREM TypeCorrect == Spec => []TypeOK
<1>1. TypeInv => TypeOK
  BY DEF TypeInv
<1> QED
  BY <1>1, TypeInit, TypeNext, PTL DEF Spec

(***************************************************************************)
(* What holds however handlers overlap: rows and version numbers.          *)
(***************************************************************************)
LEMMA RowsInit == Init => RowsInv /\ VersionInv
<1> SUFFICES ASSUME Init PROVE RowsInv /\ VersionInv
  OBVIOUS
<1>1. \A c \in Clients : op[c].pc = "idle"
  BY DEF Init, Idle
<1>2. \A k \in Contracts : versions[k] = {} /\ Numbers(k) = {}
  BY DEF Init, Numbers
<1>3. RowsInv
  BY <1>1, <1>2 DEF RowsInv, RenewalComing, Renewing
<1>4. VersionsGapless
  <2>1. \A k \in Contracts : Cardinality(versions[k]) = 0
    BY <1>2, FS_EmptySet
  <2>2. 1 .. 0 = {}
    OBVIOUS
  <2> QED
    BY <1>2, <2>1, <2>2 DEF VersionsGapless
<1> QED
  BY <1>1, <1>3, <1>4 DEF VersionInv

\* What a handler may go on as: o, with the rows as written.
GoesOn(o) ==
    /\ o.pc = "insert" => /\ row'[o.k].status = "NEW" /\ InOrder(o.term)
                          /\ \A d \in Clients : op[d].pc = "insert" => op[d].k # o.k
    /\ o.pc \in {"first", "write", "next", "version"} => row'[o.k].status # "NEW"
    /\ \/ o.pc = "write" /\ o.act = "renew"
       \/ o.pc \in {"next", "version"} /\ o.entry.what = "ended"
       => o.to \in Terms /\ InOrder(o.to)

LEMMA RowsFrame ==
    ASSUME TypeInv, RowsInv, NEW c \in Clients, NEW o, op' = [op EXCEPT ![c] = o], GoesOn(o),
           \A k \in Contracts :
              /\ row'[k].status \in NoRow => versions'[k] = {}
              /\ row'[k].status = "NEW" => row[k].status = "NEW"
              /\ \/ row[k].status = "NEW" => row'[k].status = "NEW"
                 \/ op[c].pc = "insert" /\ op[c].k = k
    PROVE  RowsInv'
<1>1. op'[c] = o /\ \A d \in Clients \ {c} : op'[d] = op[d]
  BY DEF TypeInv, TypeOK
<1>2. \A d \in Clients : op[d].pc # "idle" => op[d].k \in Contracts
  BY TypeOfOps
<1>3. ASSUME NEW d \in Clients
      PROVE  /\ op'[d].pc = "insert" =>
                   /\ row'[op'[d].k].status = "NEW"
                   /\ InOrder(op'[d].term)
                   /\ \A e \in Clients : e # d /\ op'[e].pc = "insert" => op'[e].k # op'[d].k
             /\ op'[d].pc \in {"first", "write", "next", "version"} => row'[op'[d].k].status # "NEW"
  <2>1. CASE d = c
    BY <1>1, <2>1 DEF GoesOn
  <2>2. CASE d # c
    <3>1. op[d].pc = "insert" /\ op[c].pc = "insert" => op[c].k # op[d].k
      BY <2>2 DEF RowsInv
    <3> QED
      BY <1>1, <1>2, <2>2, <3>1 DEF GoesOn, RowsInv
  <2> QED
    BY <2>1, <2>2
<1>4. ASSUME NEW d \in Clients PROVE RenewalComing(d)' => op'[d].to \in Terms /\ InOrder(op'[d].to)
  BY <1>1 DEF GoesOn, RowsInv, RenewalComing, Renewing
<1>5. \A k \in Contracts : row'[k].status \in NoRow => versions'[k] = {}
  OBVIOUS
<1> QED
  BY <1>3, <1>4, <1>5 DEF RowsInv, ContractExists

LEMMA RowsQuiet ==
    ASSUME TypeInv, RowsInv, NEW c \in Clients, NEW o, op' = [op EXCEPT ![c] = o], GoesOn(o),
           UNCHANGED tables
    PROVE  RowsInv'
BY RowsFrame DEF tables, RowsInv, ContractExists

\* What a request may begin with.
Requested(o) == \/ o.pc = "insert"
                \/ o.pc = "write" /\ o.act # "renew"
                \/ o.pc = "next" /\ o.entry.what = "ended" /\ row[o.k].status = "ACTIVE"

LEMMA RequestsGoOn ==
    ASSUME TypeInv, NEW c \in Clients, Request(c)
    PROVE  \E o : Begin(c, o) /\ GoesOn(o) /\ Requested(o)
<1>1. \A k \in Contracts : ContractExists(k) => row[k].status # "NEW"
  BY DEF ContractExists, NoRow
<1>2. \A k \in Contracts, act \in Acts : row[k].status \in Demands(act) => row[k].status # "NEW"
  BY DEF Demands, Acts, StatusActs, EDITABLE_STATUSES, Renewable, ContractStatus, READ_ONLY_STATUSES
<1>3. CASE createRead(c)
  <2>1. PICK k \in Contracts, term \in Terms :
           /\ row[k].status = "NEW" /\ InOrder(term)
           /\ \A d \in Clients : op[d].pc = "insert" => op[d].k # k
           /\ Begin(c, [pc |-> "insert", k |-> k, term |-> term, number |-> countByOrganisation(k) + 1])
    BY <1>3 DEF createRead
  <2> DEFINE o == [pc |-> "insert", k |-> k, term |-> term, number |-> countByOrganisation(k) + 1]
  <2>2. row' = row
    BY <2>1 DEF Begin, tables
  <2>3. o.pc = "insert" /\ o.k = k /\ o.term = term
    OBVIOUS
  <2>4. GoesOn(o)
    <3> HIDE DEF o
    <3> QED
      BY <2>1, <2>2, <2>3 DEF GoesOn
  <2> QED
    BY <2>1, <2>3, <2>4 DEF Requested
<1>4. ASSUME NEW k \in Contracts, NEW act \in Acts \ {"renew"}, NEW to, BeginWrite(c, act, k, to)
      PROVE  \E o : Begin(c, o) /\ GoesOn(o) /\ Requested(o)
  <2> DEFINE o == [pc |-> "write", act |-> act, k |-> k, to |-> to]
  <2>1. Begin(c, o) /\ row[k].status \in Demands(act)
    BY <1>4 DEF BeginWrite
  <2>2. o.pc = "write" /\ o.act # "renew" /\ o.k = k
    OBVIOUS
  <2>3. row' = row
    BY <2>1 DEF Begin, tables
  <2>4. GoesOn(o)
    <3> HIDE DEF o
    <3> QED
      BY <1>2, <2>1, <2>2, <2>3 DEF GoesOn
  <2> QED
    BY <2>1, <2>2, <2>4 DEF Requested
<1>5. CASE renewRead(c)
  <2>1. PICK k \in Contracts, to \in Terms :
           /\ row[k].status \in Demands("renew") /\ InOrder(to)
           /\ Begin(c, Record(k, Entry("ended", row[k].term), to))
    BY <1>5 DEF renewRead
  <2> DEFINE o == Record(k, Entry("ended", row[k].term), to)
  <2>2. o.pc = "next" /\ o.k = k /\ o.to = to /\ o.entry.what = "ended"
    BY DEF Record, Entry
  <2>3. row' = row
    BY <2>1 DEF Begin, tables
  <2>4. GoesOn(o)
    <3> HIDE DEF o
    <3> QED
      BY <1>2, <2>1, <2>2, <2>3 DEF GoesOn, Acts
  <2>5. row[k].status = "ACTIVE"
    BY <2>1 DEF Demands, Renewable
  <2> HIDE DEF o
  <2> QED
    BY <2>1, <2>2, <2>4, <2>5 DEF Requested, o
<1>6. CASE updateRead(c) \/ deleteRead(c) \/ documentRead(c) \/ statusRead(c)
  BY <1>4, <1>6 DEF updateRead, deleteRead, documentRead, statusRead, Acts, StatusActs
<1> QED
  BY <1>3, <1>5, <1>6 DEF Request

\* The write of update, renew, activate, terminate or expire: what it leaves of the row.
RowWrite(c, act, written, entry) ==
    /\ Writes(c, act, written, entry)
    /\ written.status = CASE act = "update" -> Found(c).status
                          [] act = "terminate" -> "TERMINATED"
                          [] act = "expire" -> "EXPIRED"
                          [] OTHER -> "ACTIVE"
    /\ written.number = Found(c).number /\ written.documents = Found(c).documents
    /\ written.term = IF act \in {"update", "renew"} THEN Changed(Found(c).term, op[c].to)
                                                      ELSE Found(c).term
    /\ entry.what = CASE act = "update" -> "updated"
                      [] act = "renew" -> "renewed"
                      [] act = "activate" -> "activated"
                      [] act = "terminate" -> "terminated"
                      [] act = "expire" -> "expired"

RowActs == {"update", "renew", "activate", "terminate", "expire"}

LEMMA RowWrites ==
    ASSUME TypeInv, NEW c \in Clients,
           update(c) \/ renew(c) \/ activate(c) \/ terminate(c) \/ expire(c)
    PROVE  \E act, written, entry : act \in RowActs /\ written \in Rows /\ RowWrite(c, act, written, entry)
<1>1. op[c].k \in Contracts
  BY TypeOfOps DEF update, renew, activate, terminate, expire, Writes
<1>2. Found(c) \in Rows
  BY <1>1, TypeOfRows DEF Found
<1> DEFINE f == Found(c)
           to == Changed(Found(c).term, op[c].to)
           made(st) == [Found(c) EXCEPT !.status = st]
<1>3. f = [status |-> f.status, number |-> f.number, term |-> f.term, documents |-> f.documents]
  BY <1>2 DEF Rows
<1>4. \A what, term : Entry(what, term).what = what
  BY DEF Entry
<1>5. TypeInv'
  BY TypeNext DEF Next, Continue
<1>6. \A act, written, entry : Writes(c, act, written, entry) => written \in Rows
  <2> TAKE act, written, entry
  <2> HAVE Writes(c, act, written, entry)
  <2>1. row'[op[c].k] = written
    BY <1>1 DEF Writes, TypeInv, TypeOK
  <2> QED
    BY <1>1, <1>5, <2>1, TypeOfRows DEF TypeInv, TypeOK
<1>7. CASE update(c)
  <2> DEFINE written == [Found(c) EXCEPT !.term = to]
  <2>1. Writes(c, "update", written, Entry("updated", NoTerm))
    BY <1>7 DEF update
  <2>2. /\ written.status = f.status /\ written.number = f.number
        /\ written.documents = f.documents /\ written.term = to
    BY <1>3
  <2> HIDE DEF written, to, f
  <2>3. RowWrite(c, "update", written, Entry("updated", NoTerm))
    BY <1>4, <2>1, <2>2 DEF RowWrite, f, to
  <2> QED
    BY <1>6, <2>1, <2>3 DEF RowActs
<1>8. CASE renew(c)
  <2> DEFINE written == [Found(c) EXCEPT !.status = "ACTIVE", !.term = to]
  <2>1. Writes(c, "renew", written, Entry("renewed", to))
    BY <1>8 DEF renew
  <2>2. /\ written.status = "ACTIVE" /\ written.number = f.number
        /\ written.documents = f.documents /\ written.term = to
    BY <1>3
  <2> HIDE DEF written, to, f
  <2>3. RowWrite(c, "renew", written, Entry("renewed", to))
    BY <1>4, <2>1, <2>2 DEF RowWrite, f, to
  <2> QED
    BY <1>6, <2>1, <2>3 DEF RowActs
<1>9. \A st : /\ made(st).status = st /\ made(st).number = f.number
              /\ made(st).documents = f.documents /\ made(st).term = f.term
  BY <1>3
<1>10. CASE activate(c)
  <2>1. Writes(c, "activate", made("ACTIVE"), Entry("activated", NoTerm))
    BY <1>10 DEF activate
  <2> HIDE DEF made, f
  <2>2. RowWrite(c, "activate", made("ACTIVE"), Entry("activated", NoTerm))
    BY <1>4, <1>9, <2>1 DEF RowWrite, f
  <2> QED
    BY <1>6, <2>1, <2>2 DEF RowActs
<1>11. CASE terminate(c)
  <2>1. Writes(c, "terminate", made("TERMINATED"), Entry("terminated", NoTerm))
    BY <1>11 DEF terminate
  <2> HIDE DEF made, f
  <2>2. RowWrite(c, "terminate", made("TERMINATED"), Entry("terminated", NoTerm))
    BY <1>4, <1>9, <2>1 DEF RowWrite, f
  <2> QED
    BY <1>6, <2>1, <2>2 DEF RowActs
<1>12. CASE expire(c)
  <2>1. Writes(c, "expire", made("EXPIRED"), Entry("expired", NoTerm))
    BY <1>12 DEF expire
  <2> HIDE DEF made, f
  <2>2. RowWrite(c, "expire", made("EXPIRED"), Entry("expired", NoTerm))
    BY <1>4, <1>9, <2>1 DEF RowWrite, f
  <2> QED
    BY <1>6, <2>1, <2>2 DEF RowActs
<1> QED
  BY <1>7, <1>8, <1>10, <1>11, <1>12

LEMMA RowsNext == TypeInv /\ RowsInv /\ [Next]_vars => RowsInv'
<1> SUFFICES ASSUME TypeInv, RowsInv, [Next]_vars PROVE RowsInv'
  OBVIOUS
<1> USE DEF NoRow
<1>1. CASE UNCHANGED vars
  BY <1>1 DEF vars, tables, RowsInv, ContractExists, RenewalComing, Renewing
<1>2. ASSUME NEW c \in Clients, Request(c) PROVE RowsInv'
  BY <1>2, RequestsGoOn, RowsQuiet DEF Begin
<1>3. GoesOn(Idle)
  BY DEF GoesOn, Idle
<1>4. ASSUME NEW c \in Clients, NEW missing, Abandon(c, missing) PROVE RowsInv'
  BY <1>3, <1>4, RowsQuiet DEF Abandon
<1>5. ASSUME NEW c \in Clients, create(c) PROVE RowsInv'
  <2> DEFINE k == op[c].k
             o == [pc |-> "first", k |-> k]
  <2>1. k \in Contracts /\ op[c].pc = "insert"
    BY <1>5, TypeOfOps DEF create
  <2>2. /\ op' = [op EXCEPT ![c] = o] /\ versions' = versions
        /\ row'[k].status = "DRAFT" /\ \A j \in Contracts \ {k} : row'[j] = row[j]
    BY <1>5, <2>1 DEF create, Commit, TypeInv, TypeOK
  <2>3. GoesOn(o)
    BY <2>2 DEF GoesOn
  <2> HIDE DEF o
  <2>4. \A j \in Contracts : /\ row'[j].status \in NoRow => versions'[j] = {}
                             /\ row'[j].status = "NEW" => row[j].status = "NEW"
                             /\ \/ row[j].status = "NEW" => row'[j].status = "NEW"
                                \/ op[c].pc = "insert" /\ op[c].k = j
    BY <2>1, <2>2 DEF RowsInv, ContractExists
  <2> QED
    BY <2>2, <2>3, <2>4, RowsFrame
\* A write of a contract that exists, after which its handler records or is done.
<1>6. ASSUME NEW c \in Clients, NEW o, op' = [op EXCEPT ![c] = o], op[c].k \in Contracts,
             ContractExists(op[c].k), row'[op[c].k].status # "NEW",
             \A j \in Contracts \ {op[c].k} : row'[j] = row[j] /\ versions'[j] = versions[j],
             row'[op[c].k].status = "DELETED" => versions'[op[c].k] = {},
             \/ o = Idle
             \/ o.pc = "next" /\ o.entry.what # "ended" /\ o.k = op[c].k
      PROVE  RowsInv'
  <2>1. GoesOn(o)
    BY <1>3, <1>6 DEF GoesOn
  <2>2. \A j \in Contracts : /\ row'[j].status \in NoRow => versions'[j] = {}
                             /\ row'[j].status = "NEW" => row[j].status = "NEW"
                             /\ row[j].status = "NEW" => row'[j].status = "NEW"
    BY <1>6 DEF RowsInv, ContractExists
  <2> QED
    BY <1>6, <2>1, <2>2, RowsFrame
<1>7. ASSUME NEW c \in Clients, update(c) \/ renew(c) \/ activate(c) \/ terminate(c) \/ expire(c)
      PROVE  RowsInv'
  <2>1. PICK act, written, entry : act \in RowActs /\ written \in Rows /\ RowWrite(c, act, written, entry)
    BY <1>7, RowWrites
  <2> DEFINE k == op[c].k
             o == Record(k, entry, NothingMore)
  <2>2. k \in Contracts /\ ContractExists(k)
    BY <2>1, TypeOfOps DEF RowWrite, Writes
  <2>3. /\ op' = [op EXCEPT ![c] = o] /\ versions' = versions
        /\ row'[k] = written /\ \A j \in Contracts \ {k} : row'[j] = row[j]
    BY <2>1, <2>2 DEF RowWrite, Writes, Commit, TypeInv, TypeOK
  <2>4. written.status # "NEW" /\ written.status # "DELETED"
    BY <2>1, <2>2 DEF RowWrite, RowActs, ContractExists, Found
  <2>5. o.pc = "next" /\ o.entry.what # "ended" /\ o.k = k
    BY <2>1 DEF Record, RowWrite, RowActs
  <2> HIDE DEF o
  <2> QED
    BY <1>6, <2>2, <2>3, <2>4, <2>5
<1>8. ASSUME NEW c \in Clients, uploadDocument(c) PROVE RowsInv'
  <2> DEFINE k == op[c].k
             o == Record(k, Entry("document", NoTerm), NothingMore)
  <2>1. k \in Contracts /\ ContractExists(k)
    BY <1>8, TypeOfOps DEF uploadDocument
  <2>2. op' = [op EXCEPT ![c] = o] /\ versions' = versions /\ row' = [row EXCEPT ![k].documents = @ + 1]
    BY <1>8 DEF uploadDocument, Commit
  <2>3. row'[k].status = row[k].status /\ \A j \in Contracts \ {k} : row'[j] = row[j]
    BY <2>1, <2>2, TypeOfRows DEF TypeInv, TypeOK, Rows
  <2>4. o.pc = "next" /\ o.entry.what # "ended" /\ o.k = k
    BY DEF Record, Entry
  <2> HIDE DEF o
  <2> QED
    BY <1>6, <2>1, <2>2, <2>3, <2>4 DEF ContractExists
<1>9. ASSUME NEW c \in Clients, delete(c) PROVE RowsInv'
  <2> DEFINE k == op[c].k
  <2>1. k \in Contracts /\ ContractExists(k)
    BY <1>9, TypeOfOps DEF delete
  <2>2. /\ op' = [op EXCEPT ![c] = Idle] /\ versions'[k] = {} /\ row'[k] = NoContract("DELETED")
        /\ \A j \in Contracts \ {k} : row'[j] = row[j] /\ versions'[j] = versions[j]
    BY <1>9, <2>1 DEF delete, Commit, TypeInv, TypeOK
  <2>3. row'[k].status = "DELETED"
    BY <2>2 DEF NoContract
  <2> DEFINE o == Idle
  <2>4. /\ o = Idle /\ op' = [op EXCEPT ![c] = o] /\ versions'[k] = {} /\ row'[k].status # "NEW"
        /\ \A j \in Contracts \ {k} : row'[j] = row[j] /\ versions'[j] = versions[j]
    BY <2>2, <2>3
  <2> HIDE DEF o
  <2> QED
    BY <1>6, <2>1, <2>4
<1>10. ASSUME NEW c \in Clients, nextVersion(c) PROVE RowsInv'
  <2> DEFINE o == [pc |-> "version", k |-> op[c].k, entry |-> op[c].entry, to |-> op[c].to,
                   n |-> getNextVersionNumber(op[c].k)]
  <2>1. op' = [op EXCEPT ![c] = o] /\ UNCHANGED tables
    BY <1>10 DEF nextVersion, Proceed, tables
  <2>2. o.pc = "version" /\ o.k = op[c].k /\ o.entry = op[c].entry /\ o.to = op[c].to
    OBVIOUS
  <2>3. op[c].pc = "next"
    BY <1>10 DEF nextVersion
  <2> HIDE DEF o
  <2>4. GoesOn(o)
    BY <2>1, <2>2, <2>3 DEF GoesOn, RowsInv, RenewalComing, Renewing, tables
  <2> QED
    BY <2>1, <2>4, RowsQuiet
<1>11. ASSUME NEW c \in Clients, NEW n, NEW entry, NEW o, Inserts(c, n, entry), Proceed(c, o),
              GoesOn(o), op[c].pc # "idle"
       PROVE  RowsInv'
  <2>1. op[c].k \in Contracts
    BY <1>11, TypeOfOps
  <2>2. \A j \in Contracts : row'[j].status \in NoRow => versions'[j] = {}
    BY <1>11, <2>1 DEF Proceed, Inserts, RowsInv, ContractExists, TypeInv, TypeOK
  <2> QED
    BY <1>11, <2>2, RowsFrame DEF Proceed
<1>12. ASSUME NEW c \in Clients, createVersion(c) PROVE RowsInv'
  <2> DEFINE o == [pc |-> "write", act |-> "renew", k |-> op[c].k, to |-> op[c].to]
  <2>1. op[c].pc = "version" /\ Inserts(c, op[c].n, op[c].entry) /\ Proceed(c, IF Renewing(c) THEN o ELSE Idle)
    BY <1>12 DEF createVersion
  <2>2. o.pc = "write" /\ o.k = op[c].k /\ o.to = op[c].to
    OBVIOUS
  <2> HIDE DEF o
  <2>3. Renewing(c) => GoesOn(o)
    BY <2>1, <2>2 DEF GoesOn, RowsInv, RenewalComing, Proceed
  <2> QED
    BY <1>3, <1>11, <2>1, <2>3
<1>13. ASSUME NEW c \in Clients, createFirstVersion(c) PROVE RowsInv'
  BY <1>3, <1>11, <1>13 DEF createFirstVersion
<1>14. ASSUME NEW c \in Clients, VersionTaken(c) \/ NumberRefused(c) \/ WriteFails(c) \/ Crash(c)
       PROVE  RowsInv'
  BY <1>4, <1>14 DEF VersionTaken, NumberRefused, WriteFails, Crash
<1> QED
  BY <1>1, <1>2, <1>5, <1>7, <1>8, <1>9, <1>10, <1>12, <1>13, <1>14 DEF Next, Continue

(***************************************************************************)
(* The version numbers.                                                    *)
(***************************************************************************)
\* The next number is the first that is free.
LEMMA NextIsFree ==
    ASSUME TypeInv, VersionsGapless, NEW k \in Contracts
    PROVE  getNextVersionNumber(k) = Cardinality(versions[k]) + 1
<1> DEFINE n == Cardinality(versions[k])
<1>1. n \in Nat /\ Numbers(k) = 1 .. n
  BY Counted DEF VersionsGapless
<1>2. CASE versions[k] = {}
  BY <1>2, FS_EmptySet DEF getNextVersionNumber
<1>3. CASE versions[k] # {}
  <2>1. Numbers(k) # {}
    BY <1>3 DEF Numbers
  <2>2. Numbers(k) \in SUBSET Int /\ IsFiniteSet(Numbers(k))
    BY Counted
  <2>3. Max(Numbers(k)) \in Numbers(k) /\ \A y \in Numbers(k) : y <= Max(Numbers(k))
    BY <2>1, <2>2, MaxIsGreatest
  <2> DEFINE greatest == Max(Numbers(k))
  <2> HIDE DEF n, greatest
  <2>4. greatest \in 1 .. n /\ \A y \in 1 .. n : y <= greatest
    BY <1>1, <2>3 DEF greatest
  <2>5. greatest = n
    BY <1>1, <2>4
  <2> QED
    BY <1>3, <2>5 DEF getNextVersionNumber, n, greatest
<1> QED
  BY <1>2, <1>3

\* Inserting a number at most one beyond the history, and not taken, extends it by one.
LEMMA InsertExtends ==
    ASSUME TypeInv, VersionsGapless, NEW k \in Contracts, NEW entry,
           NEW n \in 1 .. Cardinality(versions[k]) + 1, n \notin Numbers(k),
           versions' = [versions EXCEPT ![k] = @ \cup {[n |-> n, entry |-> entry]}]
    PROVE  /\ VersionsGapless'
           /\ Cardinality(versions'[k]) = Cardinality(versions[k]) + 1
           /\ \A j \in Contracts \ {k} : versions'[j] = versions[j]
<1> DEFINE v == [n |-> n, entry |-> entry]
           m == Cardinality(versions[k])
<1>1. m \in Nat /\ Numbers(k) = 1 .. m /\ IsFiniteSet(versions[k])
  BY Counted, TypeOfRows DEF VersionsGapless
<1>2. n = m + 1
  BY <1>1
<1>3. v \notin versions[k] /\ v.n = n
  BY DEF Numbers
<1>4. versions'[k] = versions[k] \cup {v} /\ \A j \in Contracts \ {k} : versions'[j] = versions[j]
  BY DEF TypeInv, TypeOK
<1> HIDE DEF v
<1>5. Cardinality(versions'[k]) = m + 1
  BY <1>1, <1>3, <1>4, FS_AddElement
<1>6. Numbers(k)' = Numbers(k) \cup {n}
  BY <1>3, <1>4 DEF Numbers
<1>7. Numbers(k)' = 1 .. m + 1
  <2>1. (1 .. m) \cup {m + 1} = 1 .. m + 1
    BY <1>1
  <2> QED
    BY <1>1, <1>2, <1>6, <2>1
<1>8. ASSUME NEW j \in Contracts, j # k PROVE Numbers(j)' = 1 .. Cardinality(versions'[j])
  BY <1>4, <1>8 DEF VersionsGapless, Numbers
<1> QED
  BY <1>4, <1>5, <1>7, <1>8 DEF VersionsGapless

LEMMA VersionNext == TypeInv /\ RowsInv /\ VersionInv /\ [Next]_vars => VersionInv'
<1> SUFFICES ASSUME TypeInv, RowsInv, VersionInv, [Next]_vars PROVE VersionInv'
  OBVIOUS
<1> USE DEF NoRow
\* A step that leaves the history alone, or throws away that of a contract it deletes.
<1>1. ASSUME NEW c \in Clients, NEW o, op' = [op EXCEPT ![c] = o],
             o.pc = "version" => /\ o.k \in Contracts
                                 /\ o.n = Cardinality(versions[o.k]) + 1
                                 /\ versions' = versions,
             \A k \in Contracts : \/ /\ versions'[k] = versions[k]
                                     /\ row[k].status # "NEW" /\ row'[k].status \notin NoRow => row[k].status \notin NoRow
                                  \/ versions'[k] = {} /\ row'[k].status \in NoRow
      PROVE  VersionInv'
  <2>1. VersionsGapless'
    <3>1. ASSUME NEW k \in Contracts PROVE Numbers(k)' = 1 .. Cardinality(versions'[k])
      <4>1. CASE versions'[k] = versions[k]
        BY <4>1 DEF VersionInv, VersionsGapless, Numbers
      <4>2. CASE versions'[k] = {}
        <5>1. Numbers(k)' = {} /\ Cardinality(versions'[k]) = 0
          BY <4>2, FS_EmptySet DEF Numbers
        <5> QED
          BY <5>1
      <4> QED
        BY <1>1, <4>1, <4>2
    <3> QED
      BY <3>1 DEF VersionsGapless
  <2>2. ASSUME NEW d \in Clients, op'[d].pc = "version", row'[op'[d].k].status \notin NoRow
        PROVE  op'[d].n \in 1 .. Cardinality(versions'[op'[d].k]) + 1
    <3>1. CASE d = c
      <4>1. op'[d] = o
        BY <1>1, <3>1 DEF TypeInv, TypeOK
      <4>2. Cardinality(versions[o.k]) \in Nat
        BY <1>1, <2>2, <4>1, Counted
      <4> QED
        BY <1>1, <2>2, <4>1, <4>2
    <3>2. CASE d # c
      <4>1. op'[d] = op[d] /\ op[d].k \in Contracts
        BY <1>1, <2>2, <3>2, TypeOfOps DEF TypeInv, TypeOK
      <4>2. row[op[d].k].status # "NEW"
        BY <2>2, <4>1 DEF RowsInv
      <4> QED
        BY <1>1, <2>2, <4>1, <4>2 DEF VersionInv, ContractExists
    <3> QED
      BY <3>1, <3>2
  <2> QED
    BY <2>1, <2>2 DEF VersionInv, ContractExists
<1>2. ASSUME NEW c \in Clients, NEW o, op' = [op EXCEPT ![c] = o], o.pc # "version", UNCHANGED tables
      PROVE  VersionInv'
  BY <1>1, <1>2 DEF tables
\* A step that inserts a version.
<1>3. ASSUME NEW c \in Clients, NEW o, o.pc # "version", Proceed(c, o), NEW n, NEW entry,
             Inserts(c, n, entry), op[c].k \in Contracts, n \in 1 .. Cardinality(versions[op[c].k]) + 1
      PROVE  VersionInv'
  <2> DEFINE k == op[c].k
  <2>1. /\ VersionsGapless'
        /\ Cardinality(versions'[k]) = Cardinality(versions[k]) + 1
        /\ \A j \in Contracts \ {k} : versions'[j] = versions[j]
    BY <1>3, InsertExtends DEF Inserts, VersionInv
  <2>2. ASSUME NEW d \in Clients, op'[d].pc = "version", row'[op'[d].k].status \notin NoRow
        PROVE  op'[d].n \in 1 .. Cardinality(versions'[op'[d].k]) + 1
    <3>1. d # c /\ op'[d] = op[d] /\ op[d].k \in Contracts /\ ContractExists(op[d].k)
      BY <1>3, <2>2, TypeOfOps DEF Proceed, ContractExists, TypeInv, TypeOK
    <3>2. op[d].n \in 1 .. Cardinality(versions[op[d].k]) + 1
      BY <2>2, <3>1 DEF VersionInv
    <3>3. Cardinality(versions[op[d].k]) \in Nat
      BY <3>1, Counted
    <3>4. \/ Cardinality(versions'[op[d].k]) = Cardinality(versions[op[d].k]) + 1
          \/ Cardinality(versions'[op[d].k]) = Cardinality(versions[op[d].k])
      BY <2>1, <3>1
    <3> QED
      BY <3>1, <3>2, <3>3, <3>4
  <2> QED
    BY <2>1, <2>2 DEF VersionInv, ContractExists
<1>4. CASE UNCHANGED vars
  BY <1>4 DEF vars, tables, VersionInv, VersionsGapless, Numbers, ContractExists
<1>5. ASSUME NEW c \in Clients, Request(c) PROVE VersionInv'
  BY <1>2, <1>5, RequestsGoOn DEF Begin, Requested
<1>6. Idle.pc # "version"
  BY DEF Idle
<1>7. ASSUME NEW c \in Clients, VersionTaken(c) \/ NumberRefused(c) \/ WriteFails(c) \/ Crash(c)
      PROVE  VersionInv'
  BY <1>2, <1>6, <1>7 DEF VersionTaken, NumberRefused, WriteFails, Crash, Abandon
<1>8. ASSUME NEW c \in Clients, create(c) PROVE VersionInv'
  <2> DEFINE o == [pc |-> "first", k |-> op[c].k]
  <2>1. op[c].k \in Contracts /\ row[op[c].k].status = "NEW"
    BY <1>8, TypeOfOps DEF create, RowsInv
  <2>2. /\ op' = [op EXCEPT ![c] = o] /\ versions' = versions
        /\ \A j \in Contracts \ {op[c].k} : row'[j] = row[j]
    BY <1>8 DEF create, Commit, TypeInv, TypeOK
  <2>3. o.pc # "version"
    OBVIOUS
  <2> HIDE DEF o
  <2> QED
    BY <1>1, <2>1, <2>2, <2>3
<1>9. ASSUME NEW c \in Clients, update(c) \/ renew(c) \/ activate(c) \/ terminate(c) \/ expire(c)
      PROVE  VersionInv'
  <2>1. PICK act, written, entry : act \in RowActs /\ written \in Rows /\ Writes(c, act, written, entry)
    BY <1>9, RowWrites DEF RowWrite
  <2> DEFINE o == Record(op[c].k, entry, NothingMore)
  <2>2. op[c].k \in Contracts /\ ContractExists(op[c].k)
    BY <2>1, TypeOfOps DEF Writes
  <2>3. /\ op' = [op EXCEPT ![c] = o] /\ versions' = versions
        /\ \A j \in Contracts \ {op[c].k} : row'[j] = row[j]
    BY <2>1 DEF Writes, Commit, TypeInv, TypeOK
  <2>4. o.pc # "version"
    BY DEF Record
  <2> HIDE DEF o
  <2> QED
    BY <1>1, <2>2, <2>3, <2>4 DEF ContractExists
<1>10. ASSUME NEW c \in Clients, uploadDocument(c) PROVE VersionInv'
  <2> DEFINE o == Record(op[c].k, Entry("document", NoTerm), NothingMore)
  <2>1. op[c].k \in Contracts /\ ContractExists(op[c].k)
    BY <1>10, TypeOfOps DEF uploadDocument
  <2>2. /\ op' = [op EXCEPT ![c] = o] /\ versions' = versions
        /\ \A j \in Contracts \ {op[c].k} : row'[j] = row[j]
    BY <1>10 DEF uploadDocument, Commit, TypeInv, TypeOK
  <2>3. o.pc # "version"
    BY DEF Record
  <2> HIDE DEF o
  <2> QED
    BY <1>1, <2>1, <2>2, <2>3 DEF ContractExists
<1>11. ASSUME NEW c \in Clients, delete(c) PROVE VersionInv'
  <2> DEFINE k == op[c].k
  <2>1. k \in Contracts
    BY <1>11, TypeOfOps DEF delete
  <2>2. /\ op' = [op EXCEPT ![c] = Idle] /\ versions'[k] = {} /\ row'[k] = NoContract("DELETED")
        /\ \A j \in Contracts \ {k} : row'[j] = row[j] /\ versions'[j] = versions[j]
    BY <1>11, <2>1 DEF delete, Commit, TypeInv, TypeOK
  <2>3. row'[k].status = "DELETED"
    BY <2>2 DEF NoContract
  <2> QED
    BY <1>1, <1>6, <2>1, <2>2, <2>3
<1>12. ASSUME NEW c \in Clients, nextVersion(c) PROVE VersionInv'
  <2> DEFINE o == [pc |-> "version", k |-> op[c].k, entry |-> op[c].entry, to |-> op[c].to,
                   n |-> getNextVersionNumber(op[c].k)]
  <2>1. op' = [op EXCEPT ![c] = o] /\ UNCHANGED tables
    BY <1>12 DEF nextVersion, Proceed, tables
  <2>2. o.k = op[c].k /\ o.n = getNextVersionNumber(op[c].k)
    OBVIOUS
  <2>3. op[c].k \in Contracts
    BY <1>12, TypeOfOps DEF nextVersion
  <2>4. o.n = Cardinality(versions[o.k]) + 1
    BY <2>2, <2>3, NextIsFree DEF VersionInv
  <2> HIDE DEF o
  <2> QED
    BY <1>1, <2>1, <2>2, <2>3, <2>4 DEF tables
<1>13. ASSUME NEW c \in Clients, createVersion(c) PROVE VersionInv'
  <2> DEFINE o == IF Renewing(c) THEN [pc |-> "write", act |-> "renew", k |-> op[c].k, to |-> op[c].to]
                                 ELSE Idle
  <2>1. op[c].pc = "version" /\ Inserts(c, op[c].n, op[c].entry) /\ Proceed(c, o)
    BY <1>13 DEF createVersion
  <2>2. o.pc # "version"
    BY <1>6
  <2>3. op[c].k \in Contracts /\ op[c].n \in 1 .. Cardinality(versions[op[c].k]) + 1
    BY <2>1, TypeOfOps DEF VersionInv, Inserts
  <2> HIDE DEF o
  <2> QED
    BY <1>3, <2>1, <2>2, <2>3
<1>14. ASSUME NEW c \in Clients, createFirstVersion(c) PROVE VersionInv'
  <2>1. op[c].k \in Contracts
    BY <1>14, TypeOfOps DEF createFirstVersion
  <2>2. 1 \in 1 .. Cardinality(versions[op[c].k]) + 1
    BY <2>1, Counted
  <2> QED
    BY <1>3, <1>6, <1>14, <2>1, <2>2 DEF createFirstVersion
<1> QED
  BY <1>4, <1>5, <1>7, <1>8, <1>9, <1>10, <1>11, <1>12, <1>13, <1>14 DEF Next, Continue

\* However handlers overlap, fail or die, the history of every contract is numbered
\* 1, 2, 3 and so on, for any number of handlers: whoever read an old number loses.
THEOREM HistoryIsGapless == Spec => []VersionsGapless
<1>1. VersionInv => VersionsGapless
  BY DEF VersionInv
<1> QED
  BY <1>1, TypeInit, TypeNext, RowsInit, RowsNext, VersionNext, PTL DEF Spec

(***************************************************************************)
(* The history.                                                            *)
(***************************************************************************)
LEMMA HistoryInit == Init => HistoryInv
<1> SUFFICES ASSUME Init PROVE HistoryInv
  OBVIOUS
<1>1. \A c \in Clients : op[c].pc = "idle"
  BY DEF Init, Idle
<1>2. \A k \in Contracts, what \in Summaries : ToTell(k, what) = {}
  BY <1>1 DEF ToTell, Tells
<1>3. \A k \in Contracts : ~ContractExists(k)
  BY DEF Init, ContractExists, NoContract, NoRow
<1> QED
  BY <1>2, <1>3, FS_EmptySet DEF HistoryInv

LEMMA HappenedNat ==
    ASSUME TypeInv, HistoryInv, NEW k \in Contracts, NEW what \in Summaries
    PROVE  /\ Count(k, what) \in Nat /\ Cardinality(ToTell(k, what)) \in Nat
           /\ IsFiniteSet(Told(k, what)) /\ Happened(k, what) \in Nat
<1>1. Told(k, what) \in SUBSET versions[k]
  BY DEF Told
<1>2. IsFiniteSet(Told(k, what))
  BY <1>1, TypeOfRows, FS_Subset
<1>3. Count(k, what) \in Nat
  BY <1>2, FS_CardinalityType DEF Count
<1>4. Cardinality(ToTell(k, what)) \in Nat
  BY FS_CardinalityType DEF HistoryInv
<1> QED
  BY <1>2, <1>3, <1>4 DEF Happened

\* What a handler's step does to what its contract's history tells or will tell.
LEMMA HappenedMoves ==
    ASSUME TypeInv, HistoryInv, NEW c \in Clients, NEW o, op' = [op EXCEPT ![c] = o],
           NEW k \in Contracts, NEW what \in Summaries
    PROVE  /\ IsFiniteSet(ToTell(k, what)')
           /\ /\ versions'[k] = versions[k]
              /\ Tells(op[c], k, what) <=> Tells(o, k, what)
              => Happened(k, what)' = Happened(k, what)
           /\ versions'[k] = versions[k] /\ ~Tells(op[c], k, what) /\ Tells(o, k, what)
              => Happened(k, what)' = Happened(k, what) + 1
           /\ \A v : /\ v \notin versions[k] /\ versions'[k] = versions[k] \cup {v}
                     /\ v.entry.what = what <=> Tells(op[c], k, what)
                     /\ ~Tells(o, k, what)
                     => Happened(k, what)' = Happened(k, what)
<1> DEFINE T == ToTell(k, what)
           U == ToTell(k, what)'
           told == Told(k, what)
           toldThen == Told(k, what)'
<1>1. U = IF Tells(o, k, what) THEN T \cup {c} ELSE T \ {c}
  BY DEF ToTell, TypeInv, TypeOK
<1>2. c \in T <=> Tells(op[c], k, what)
  BY DEF ToTell
<1>3. IsFiniteSet(T) /\ IsFiniteSet(told) /\ Cardinality(T) \in Nat /\ Cardinality(told) \in Nat
  BY HappenedNat DEF HistoryInv, Count
<1>4. Happened(k, what) = Cardinality(told) + Cardinality(T)
  BY DEF Happened, Count
<1>5. Happened(k, what)' = Cardinality(toldThen) + Cardinality(U)
  BY DEF Happened, Count
<1>6. versions'[k] = versions[k] => toldThen = told
  BY DEF Told
<1>7. ASSUME NEW v, v \notin versions[k], versions'[k] = versions[k] \cup {v}
      PROVE  /\ v \notin told
             /\ v.entry.what = what => toldThen = told \cup {v}
             /\ v.entry.what # what => toldThen = told
  BY <1>7 DEF Told
<1> HIDE DEF T, U, told, toldThen
<1>8. /\ IsFiniteSet(U)
      /\ (Tells(op[c], k, what) <=> Tells(o, k, what)) => Cardinality(U) = Cardinality(T)
      /\ ~Tells(op[c], k, what) /\ Tells(o, k, what) => Cardinality(U) = Cardinality(T) + 1
      /\ Tells(op[c], k, what) /\ ~Tells(o, k, what) => Cardinality(U) = Cardinality(T) - 1
  <2>1. /\ IsFiniteSet(T \cup {c}) /\ Cardinality(T \cup {c}) = IF c \in T THEN Cardinality(T) ELSE Cardinality(T) + 1
        /\ IsFiniteSet(T \ {c}) /\ Cardinality(T \ {c}) = IF c \in T THEN Cardinality(T) - 1 ELSE Cardinality(T)
    BY <1>3, FS_AddElement, FS_RemoveElement
  <2> QED
    BY <1>1, <1>2, <2>1
<1>9. ASSUME NEW v, v \notin told PROVE Cardinality(told \cup {v}) = Cardinality(told) + 1
  BY <1>3, <1>9, FS_AddElement
<1>10. ASSUME versions'[k] = versions[k] PROVE Cardinality(toldThen) = Cardinality(told)
  BY <1>6, <1>10
<1>11. ASSUME NEW v, v \notin versions[k], versions'[k] = versions[k] \cup {v},
              v.entry.what = what <=> Tells(op[c], k, what), ~Tells(o, k, what)
       PROVE  Happened(k, what)' = Happened(k, what)
  <2>1. CASE Tells(op[c], k, what)
    <3>1. Cardinality(toldThen) = Cardinality(told) + 1
      BY <1>7, <1>9, <1>11, <2>1
    <3>2. Cardinality(U) = Cardinality(T) - 1
      BY <1>8, <1>11, <2>1
    <3> QED
      BY <1>3, <1>4, <1>5, <3>1, <3>2
  <2>2. CASE ~Tells(op[c], k, what)
    <3>1. Cardinality(toldThen) = Cardinality(told)
      BY <1>7, <1>11, <2>2
    <3>2. Cardinality(U) = Cardinality(T)
      BY <1>8, <1>11, <2>2
    <3> QED
      BY <1>4, <1>5, <3>1, <3>2
  <2> QED
    BY <2>1, <2>2
<1>12. ASSUME versions'[k] = versions[k], Tells(op[c], k, what) <=> Tells(o, k, what)
       PROVE  Happened(k, what)' = Happened(k, what)
  BY <1>4, <1>5, <1>8, <1>10, <1>12
<1>13. ASSUME versions'[k] = versions[k], ~Tells(op[c], k, what), Tells(o, k, what)
       PROVE  Happened(k, what)' = Happened(k, what) + 1
  BY <1>3, <1>4, <1>5, <1>8, <1>10, <1>13
<1> QED
  BY <1>8, <1>11, <1>12, <1>13 DEF U

LEMMA HappenedSame ==
    ASSUME TypeInv, HistoryInv, NEW c \in Clients, NEW o, op' = [op EXCEPT ![c] = o],
           NEW k \in Contracts, NEW what \in Summaries, versions'[k] = versions[k],
           Tells(op[c], k, what) <=> Tells(o, k, what)
    PROVE  Happened(k, what)' = Happened(k, what)
BY HappenedMoves

LEMMA HappenedMore ==
    ASSUME TypeInv, HistoryInv, NEW c \in Clients, NEW o, op' = [op EXCEPT ![c] = o],
           NEW k \in Contracts, NEW what \in Summaries, versions'[k] = versions[k],
           ~Tells(op[c], k, what), Tells(o, k, what)
    PROVE  Happened(k, what)' = Happened(k, what) + 1
BY HappenedMoves

LEMMA HappenedOther ==
    ASSUME TypeInv, HistoryInv, NEW c \in Clients, NEW o, op' = [op EXCEPT ![c] = o],
           NEW k \in Contracts, NEW what \in Summaries, versions'[k] = versions[k],
           ~Tells(op[c], k, what), ~Tells(o, k, what)
    PROVE  Happened(k, what)' = Happened(k, what)
BY HappenedMoves

LEMMA HappenedTold ==
    ASSUME TypeInv, HistoryInv, NEW c \in Clients, NEW o, op' = [op EXCEPT ![c] = o],
           NEW k \in Contracts, NEW what \in Summaries,
           NEW v, v \notin versions[k], versions'[k] = versions[k] \cup {v}, ~Tells(o, k, what),
           \/ v.entry.what = what /\ Tells(op[c], k, what)
           \/ v.entry.what # what /\ ~Tells(op[c], k, what)
    PROVE  Happened(k, what)' = Happened(k, what)
BY HappenedMoves

Milestones == {"created", "document", "activated", "terminated", "expired"}

\* A step that tells of k what it knew, or that concerns another contract.
LEMMA StoryKept ==
    ASSUME TypeInv, NEW c \in Clients, NEW o, op' = [op EXCEPT ![c] = o],
           NEW k \in Contracts, StoryOf(k), row'[k] = row[k],
           \A what \in Milestones : Happened(k, what)' = Happened(k, what),
           \/ o.pc \notin {"write", "next", "version"}
           \/ o.pc = "write" /\ o.act # "renew"
           \/ o.pc \in {"next", "version"} /\ o.entry.what # "ended"
           \/ o.k # k
           \/ RenewalComing(c) /\ op[c].k = k
           \/ row[k].status = "ACTIVE"
    PROVE  StoryOf(k)'
<1>1. \A d \in Clients \ {c} : op'[d] = op[d]
  BY DEF TypeInv, TypeOK
<1>2. op'[c] = o
  BY DEF TypeInv, TypeOK
<1>3. ASSUME NEW d \in Clients, RenewalComing(d)', op'[d].k = k
      PROVE  Happened(k, "activated") > 0
  <2>1. CASE d = c
    <3>1. (RenewalComing(c) /\ op[c].k = k) \/ row[k].status = "ACTIVE"
      BY <1>2, <1>3, <2>1 DEF RenewalComing, Renewing
    <3> QED
      BY <3>1 DEF StoryOf
  <2>2. CASE d # c
    BY <1>1, <1>3, <2>2 DEF StoryOf, RenewalComing, Renewing
  <2> QED
    BY <2>1, <2>2
<1> QED
  BY <1>3 DEF StoryOf, Milestones

\* A step that leaves the contracts and their histories alone and has told of none.
LEMMA HistoryQuiet ==
    ASSUME TypeInv, HistoryInv, NEW c \in Clients, NEW o, op' = [op EXCEPT ![c] = o],
           UNCHANGED row, \A k \in Contracts \ unrecorded' : ContractExists(k) => versions'[k] = versions[k],
           unrecorded \subseteq unrecorded',
           \A k \in Contracts \ unrecorded', what \in Milestones :
              ContractExists(k) => (Tells(op[c], k, what) <=> Tells(o, k, what)),
           \/ o.pc \notin {"write", "next", "version"}
           \/ o.pc = "write" /\ o.act # "renew"
           \/ o.pc \in {"next", "version"} /\ o.entry.what # "ended"
           \/ RenewalComing(c) /\ op[c].k = o.k
           \/ row[o.k].status = "ACTIVE"
    PROVE  HistoryInv'
<1>1. \A k \in Contracts, what \in Summaries : IsFiniteSet(ToTell(k, what)')
  BY HappenedMoves
<1>2. Milestones \subseteq Summaries
  BY DEF Milestones, Summaries
<1>3. ASSUME NEW k \in Contracts, ContractExists(k), k \notin unrecorded' PROVE StoryOf(k)'
  <2>1. StoryOf(k)
    BY <1>3 DEF HistoryInv
  <2>2. \A what \in Milestones : Happened(k, what)' = Happened(k, what)
    <3> TAKE what \in Milestones
    <3>1. what \in Summaries /\ versions'[k] = versions[k]
      BY <1>2, <1>3
    <3>2. Tells(op[c], k, what) <=> Tells(o, k, what)
      BY <1>3
    <3> QED
      BY <3>1, <3>2, HappenedMoves
  <2>3. row'[k] = row[k]
    OBVIOUS
  <2>4. \/ o.pc \notin {"write", "next", "version"}
        \/ o.pc = "write" /\ o.act # "renew"
        \/ o.pc \in {"next", "version"} /\ o.entry.what # "ended"
        \/ o.k # k
        \/ RenewalComing(c) /\ op[c].k = k
        \/ row[k].status = "ACTIVE"
    OBVIOUS
  <2> QED
    BY <2>1, <2>2, <2>3, <2>4, StoryKept, ZenonT(60)
<1> QED
  BY <1>1, <1>3 DEF HistoryInv, ContractExists

\* A step that writes one contract, goes on as o and leaves the others alone.
LEMMA HistoryRow ==
    ASSUME TypeInv, HistoryInv, NEW c \in Clients, NEW o, op' = [op EXCEPT ![c] = o],
           NEW k \in Contracts,
           \A j \in Contracts \ {k} :
              /\ row'[j] = row[j] /\ versions'[j] = versions[j]
              /\ \A what \in Milestones : Tells(op[c], j, what) <=> Tells(o, j, what),
           \/ o.pc \notin {"write", "next", "version"}
           \/ o.pc = "write" /\ o.act # "renew"
           \/ o.pc \in {"next", "version"} /\ o.entry.what # "ended"
           \/ o.k = k,
           unrecorded' = unrecorded,
           row'[k].status \notin NoRow /\ k \notin unrecorded => StoryOf(k)'
    PROVE  HistoryInv'
<1>1. \A j \in Contracts, what \in Summaries : IsFiniteSet(ToTell(j, what)')
  BY HappenedMoves
<1>2. Milestones \subseteq Summaries
  BY DEF Milestones, Summaries
<1>3. ASSUME NEW j \in Contracts, row'[j].status \notin NoRow, j \notin unrecorded PROVE StoryOf(j)'
  <2>1. CASE j = k
    BY <1>3, <2>1
  <2>2. CASE j # k
    <3>1. StoryOf(j)
      BY <1>3, <2>2 DEF HistoryInv, ContractExists
    <3>2. \A what \in Milestones : Happened(j, what)' = Happened(j, what)
      <4> TAKE what \in Milestones
      <4>1. what \in Summaries /\ versions'[j] = versions[j]
        BY <1>2, <2>2
      <4>2. Tells(op[c], j, what) <=> Tells(o, j, what)
        BY <2>2
      <4> QED
        BY <4>1, <4>2, HappenedMoves
    <3> QED
      BY <2>2, <3>1, <3>2, StoryKept
  <2> QED
    BY <2>1, <2>2
<1> QED
  BY <1>1, <1>3 DEF HistoryInv, ContractExists

LEMMA HistoryNext == TypeInv /\ RowsInv /\ HistoryInv /\ [Next]_vars => HistoryInv'
<1> SUFFICES ASSUME TypeInv, RowsInv, HistoryInv, [Next]_vars PROVE HistoryInv'
  OBVIOUS
<1> USE DEF NoRow
<1>1. CASE UNCHANGED vars
  <2>1. \A k \in Contracts, what \in Summaries : ToTell(k, what)' = ToTell(k, what)
    BY <1>1 DEF vars, tables, ToTell, Tells
  <2>2. \A k \in Contracts, what \in Summaries : Happened(k, what)' = Happened(k, what)
    BY <1>1, <2>1 DEF vars, tables, Happened, Count, Told
  <2>3. {"created", "document", "activated", "terminated", "expired"} \subseteq Summaries
    BY DEF Summaries
  <2>4. \A k \in Contracts : StoryOf(k) => StoryOf(k)'
    BY <1>1, <2>2, <2>3 DEF vars, tables, StoryOf, RenewalComing, Renewing
  <2> QED
    BY <1>1, <2>1, <2>4 DEF vars, tables, HistoryInv, ContractExists
<1>2. Milestones \subseteq Summaries /\ "ended" \notin Milestones
  BY DEF Milestones, Summaries
<1>3. ASSUME NEW c \in Clients, Request(c) PROVE HistoryInv'
  <2>1. PICK o : Begin(c, o) /\ Requested(o)
    BY <1>3, RequestsGoOn
  <2>2. \A k \in Contracts, what \in Milestones : ~Tells(op[c], k, what) /\ ~Tells(o, k, what)
    BY <1>2, <2>1 DEF Begin, Idle, Requested, Tells
  <2> QED
    BY <2>1, <2>2, HistoryQuiet DEF Begin, Requested, tables
<1>4. \A k, what : ~Tells(Idle, k, what)
  BY DEF Idle, Tells
\* A handler that dies or fails leaves its contract with a version missing.
<1>5. ASSUME NEW c \in Clients, NEW missing, Abandon(c, missing),
             op[c].pc \in {"first", "next", "version"} => op[c].k \in missing \/ ~ContractExists(op[c].k)
      PROVE  HistoryInv'
  <2>1. \A k \in Contracts \ unrecorded', what \in Milestones : ContractExists(k) => ~Tells(op[c], k, what)
    BY <1>5 DEF Abandon, Tells
  <2>2. Idle.pc \notin {"write", "next", "version"}
    BY DEF Idle
  <2> QED
    BY <1>4, <1>5, <2>1, <2>2, HistoryQuiet DEF Abandon, tables
<1>6. ASSUME NEW c \in Clients, VersionTaken(c) \/ NumberRefused(c) \/ WriteFails(c) \/ Crash(c)
      PROVE  HistoryInv'
  BY <1>5, <1>6 DEF VersionTaken, NumberRefused, WriteFails, Crash
<1>7. ASSUME NEW c \in Clients, create(c) PROVE HistoryInv'
  <2>0. op[c].k \in Contracts
    BY <1>7, TypeOfOps DEF create
  <2> PICK k \in Contracts : k = op[c].k
    BY <2>0
  <2> DEFINE o == [pc |-> "first", k |-> k]
  <2>1. k \in Contracts /\ op[c].pc = "insert" /\ row[k].status = "NEW"
    BY <1>7 DEF create, RowsInv
  <2>2. /\ op' = [op EXCEPT ![c] = o] /\ versions' = versions
        /\ row'[k].status = "DRAFT" /\ row'[k].documents = 0 /\ unrecorded' = unrecorded
        /\ \A j \in Contracts \ {k} : row'[j] = row[j]
    BY <1>7, <2>1 DEF create, Commit, TypeInv, TypeOK
  <2>3. /\ \A what : ~Tells(op[c], k, what) /\ (Tells(o, k, what) <=> what = "created")
        /\ \A j \in Contracts \ {k}, what \in Milestones : ~Tells(op[c], j, what) /\ ~Tells(o, j, what)
    BY <2>1 DEF Tells
  <2>4. o.pc \notin {"write", "next", "version"}
    OBVIOUS
  <2>5. \A what \in Summaries : Happened(k, what) = 0
    <3> TAKE what \in Summaries
    <3>1. ToTell(k, what) = {}
      BY <2>1 DEF ToTell, Tells, RowsInv
    <3>2. Told(k, what) = {}
      BY <2>1 DEF Told, RowsInv, ContractExists
    <3> QED
      BY <3>1, <3>2, FS_EmptySet DEF Happened, Count
  <2>6. \A d \in Clients : RenewalComing(d)' => op'[d].k # k
    BY <2>1, <2>2 DEF RenewalComing, Renewing, RowsInv, TypeInv, TypeOK
  <2> HIDE DEF o
  <2>7. /\ Happened(k, "created")' = 1
        /\ \A what \in Milestones \ {"created"} : Happened(k, what)' = 0
    <3>1. "created" \in Summaries
      BY DEF Summaries
    <3>2. ~Tells(op[c], k, "created") /\ Tells(o, k, "created") /\ versions'[k] = versions[k]
      BY <2>2, <2>3
    <3>3. Happened(k, "created")' = Happened(k, "created") + 1
      BY <2>1, <2>2, <3>1, <3>2, HappenedMore
    <3>4. \A what \in Milestones \ {"created"} : Happened(k, what)' = Happened(k, what)
      <4> TAKE what \in Milestones \ {"created"}
      <4>1. what \in Summaries /\ (Tells(op[c], k, what) <=> Tells(o, k, what))
        BY <1>2, <2>3
      <4> QED
        BY <2>1, <2>2, <3>2, <4>1, HappenedSame
    <3> QED
      BY <1>2, <2>5, <3>1, <3>3, <3>4
  <2>8. StoryOf(k)'
    BY <2>2, <2>6, <2>7 DEF StoryOf, Milestones
  <2>9. \A j \in Contracts \ {k}, what \in Milestones : Tells(op[c], j, what) <=> Tells(o, j, what)
    BY <2>3
  <2> QED
    BY <2>1, <2>2, <2>4, <2>8, <2>9, HistoryRow
\* A write of a contract and what it does to the story of the contract.
<1>8. ASSUME NEW c \in Clients, NEW what \in Summaries \ {"created", "ended"}, NEW entry,
             entry.what = what, op[c].pc = "write", op[c].k \in Contracts, ContractExists(op[c].k),
             op' = [op EXCEPT ![c] = Record(op[c].k, entry, NothingMore)],
             versions' = versions, unrecorded' = unrecorded,
             \A j \in Contracts \ {op[c].k} : row'[j] = row[j],
             row'[op[c].k].documents = row[op[c].k].documents + IF what = "document" THEN 1 ELSE 0,
             \/ /\ row'[op[c].k].status = row[op[c].k].status
                /\ what \notin {"activated", "terminated", "expired"}
             \/ row'[op[c].k].status = "ACTIVE" /\ what = "activated"
             \/ row'[op[c].k].status = "ACTIVE" /\ RenewalComing(c)
             \/ row'[op[c].k].status = "TERMINATED" /\ what = "terminated"
             \/ row'[op[c].k].status = "EXPIRED" /\ what = "expired"
      PROVE  HistoryInv'
  <2> PICK k \in Contracts : k = op[c].k
    BY <1>8
  <2>0. PICK o : o = Record(k, entry, NothingMore)
    OBVIOUS
  <2>1. o.pc = "next" /\ o.k = k /\ o.entry.what = what
    BY <1>8, <2>0 DEF Record
  <2>2. /\ \A w : ~Tells(op[c], k, w) /\ (Tells(o, k, w) <=> w = what)
        /\ \A j \in Contracts \ {k}, w \in Milestones : Tells(op[c], j, w) <=> Tells(o, j, w)
    BY <1>8, <2>1 DEF Tells
  <2>3. /\ op' = [op EXCEPT ![c] = o] /\ versions' = versions /\ unrecorded' = unrecorded
        /\ \A j \in Contracts \ {k} : row'[j] = row[j]
    BY <1>8, <2>0
  <2>6. \A j \in Contracts \ {k} : /\ row'[j] = row[j] /\ versions'[j] = versions[j]
                                   /\ \A w \in Milestones : Tells(op[c], j, w) <=> Tells(o, j, w)
    BY <2>2, <2>3
  <2>7. op' = [op EXCEPT ![c] = o] /\ unrecorded' = unrecorded
    BY <2>3
  <2>4. ASSUME k \notin unrecorded PROVE StoryOf(k)'
    <3>1. StoryOf(k)
      BY <1>8, <2>4 DEF HistoryInv
    <3>2. \A w \in Milestones : Happened(k, w)' = Happened(k, w) + IF w = what THEN 1 ELSE 0
      <4> TAKE w \in Milestones
      <4>1. w \in Summaries /\ versions'[k] = versions[k] /\ Happened(k, w) \in Nat
        BY <1>2, <1>8, HappenedNat
      <4>2. CASE w = what
        <5>1. ~Tells(op[c], k, w) /\ Tells(o, k, w)
          BY <2>2, <4>2
        <5>2. Happened(k, w)' = Happened(k, w) + 1
          BY <2>7, <4>1, <5>1, HappenedMore
        <5> QED
          BY <4>2, <5>2
      <4>3. CASE w # what
        <5>1. ~Tells(op[c], k, w) /\ ~Tells(o, k, w)
          BY <2>2, <4>3
        <5>2. Happened(k, w)' = Happened(k, w)
          BY <2>7, <4>1, <5>1, HappenedOther
        <5> QED
          BY <4>1, <4>3, <5>2
      <4> QED
        BY <4>2, <4>3
    <3>3. \A w \in Milestones : Happened(k, w) \in Nat
      BY <1>2, <1>8, HappenedNat
    <3>4. ASSUME NEW d \in Clients, RenewalComing(d)', op'[d].k = k
          PROVE  Happened(k, "activated") > 0
      <4>1. d # c
        BY <1>8, <2>1, <2>3, <3>4 DEF RenewalComing, Renewing, TypeInv, TypeOK
      <4>2. RenewalComing(d) /\ op[d].k = k
        BY <2>3, <3>4, <4>1 DEF RenewalComing, Renewing, TypeInv, TypeOK
      <4> QED
        BY <3>1, <4>2 DEF StoryOf
    <3>5. RenewalComing(c) => Happened(k, "activated") > 0
      BY <3>1 DEF StoryOf
    <3>6. row'[k].status # "UNDER_REVIEW"
      BY <1>8, <3>1 DEF StoryOf
    <3>7. Happened(k, "created")' = 1 /\ Happened(k, "document")' = row'[k].documents
      BY <1>8, <3>1, <3>2 DEF StoryOf, Milestones
    <3>8. row'[k].status = "DRAFT" =>
             \A w \in {"activated", "terminated", "expired"} : Happened(k, w)' = 0
      BY <1>8, <3>1, <3>2 DEF StoryOf, Milestones
    <3>9. /\ row'[k].status = "ACTIVE" => Happened(k, "activated")' > 0
          /\ row'[k].status = "TERMINATED" => Happened(k, "terminated")' > 0
          /\ row'[k].status = "EXPIRED" => Happened(k, "expired")' > 0
      BY <1>8, <3>1, <3>2, <3>3, <3>5 DEF StoryOf, Milestones
    <3>10. \A d \in Clients : RenewalComing(d)' /\ op'[d].k = k => Happened(k, "activated")' > 0
      BY <3>2, <3>3, <3>4 DEF Milestones
    <3> QED
      BY <3>6, <3>7, <3>8, <3>9, <3>10 DEF StoryOf
  <2>5. o.pc \in {"next", "version"} /\ o.entry.what # "ended"
    BY <2>1
  <2> QED
    BY <2>4, <2>5, <2>6, <2>7, HistoryRow
<1>9. ASSUME NEW c \in Clients, update(c) \/ renew(c) \/ activate(c) \/ terminate(c) \/ expire(c)
      PROVE  HistoryInv'
  <2>1. PICK act, written, entry : act \in RowActs /\ written \in Rows /\ RowWrite(c, act, written, entry)
    BY <1>9, RowWrites
  <2> DEFINE k == op[c].k
             what == entry.what
  <2>2. k \in Contracts /\ ContractExists(k) /\ op[c].pc = "write" /\ op[c].act = act
    BY <2>1, TypeOfOps DEF RowWrite, Writes
  <2>3. /\ op' = [op EXCEPT ![c] = Record(k, entry, NothingMore)] /\ versions' = versions
        /\ unrecorded' = unrecorded
        /\ row'[k] = written /\ \A j \in Contracts \ {k} : row'[j] = row[j]
    BY <2>1, <2>2 DEF RowWrite, Writes, Commit, TypeInv, TypeOK
  <2>4. /\ what \in Summaries \ {"created", "ended", "document"}
        /\ written.documents = row[k].documents
        /\ \/ written.status = row[k].status /\ what = "updated"
           \/ written.status = "ACTIVE" /\ what = "activated"
           \/ written.status = "ACTIVE" /\ act = "renew"
           \/ written.status = "TERMINATED" /\ what = "terminated"
           \/ written.status = "EXPIRED" /\ what = "expired"
    BY <2>1 DEF RowWrite, RowActs, Summaries, Found
  <2>5. row[k].documents \in Nat
    BY <2>2, TypeOfRows
  <2>6. row'[k].documents = row[k].documents + IF what = "document" THEN 1 ELSE 0
    BY <2>3, <2>4, <2>5
  <2>7. act = "renew" => RenewalComing(c)
    BY <2>2 DEF RenewalComing
  <2> HIDE DEF what
  <2>8. entry.what = what
    BY DEF what
  <2> QED
    BY <1>8, <2>2, <2>3, <2>4, <2>6, <2>7, <2>8
<1>10. ASSUME NEW c \in Clients, uploadDocument(c) PROVE HistoryInv'
  <2> DEFINE k == op[c].k
             entry == Entry("document", NoTerm)
  <2>1. k \in Contracts /\ ContractExists(k) /\ op[c].pc = "write"
    BY <1>10, TypeOfOps DEF uploadDocument
  <2>2. /\ op' = [op EXCEPT ![c] = Record(k, entry, NothingMore)] /\ versions' = versions
        /\ unrecorded' = unrecorded /\ row' = [row EXCEPT ![k].documents = @ + 1]
    BY <1>10 DEF uploadDocument, Commit
  <2>3. /\ row'[k].status = row[k].status /\ row'[k].documents = row[k].documents + 1
        /\ \A j \in Contracts \ {k} : row'[j] = row[j]
    BY <2>1, <2>2, TypeOfRows DEF TypeInv, TypeOK, Rows
  <2>4. entry.what = "document" /\ "document" \in Summaries
    BY DEF Entry, Summaries
  <2> HIDE DEF entry
  <2> QED
    BY <1>8, <2>1, <2>2, <2>3, <2>4
<1>11. ASSUME NEW c \in Clients, delete(c) PROVE HistoryInv'
  <2>0. op[c].k \in Contracts
    BY <1>11, TypeOfOps DEF delete
  <2> PICK k \in Contracts : k = op[c].k
    BY <2>0
  <2> DEFINE o == Idle
  <2>1. k \in Contracts /\ op[c].pc = "write"
    BY <1>11 DEF delete
  <2>2. /\ op' = [op EXCEPT ![c] = o] /\ row'[k] = NoContract("DELETED") /\ unrecorded' = unrecorded
        /\ \A j \in Contracts \ {k} : row'[j] = row[j] /\ versions'[j] = versions[j]
    BY <1>11, <2>1 DEF delete, Commit, TypeInv, TypeOK
  <2>3. row'[k].status = "DELETED"
    BY <2>2 DEF NoContract
  <2>4. \A j \in Contracts, what \in Milestones : ~Tells(op[c], j, what) /\ ~Tells(o, j, what)
    BY <1>4, <2>1 DEF Tells
  <2>5. o.pc \notin {"write", "next", "version"}
    BY DEF Idle
  <2> HIDE DEF o
  <2>6. \A j \in Contracts \ {k} : /\ row'[j] = row[j] /\ versions'[j] = versions[j]
                                   /\ \A what \in Milestones : Tells(op[c], j, what) <=> Tells(o, j, what)
    BY <2>2, <2>4
  <2>7. op' = [op EXCEPT ![c] = o] /\ unrecorded' = unrecorded
    BY <2>2
  <2> QED
    BY <2>3, <2>5, <2>6, <2>7, HistoryRow
<1>12. ASSUME NEW c \in Clients, nextVersion(c) PROVE HistoryInv'
  <2> DEFINE o == [pc |-> "version", k |-> op[c].k, entry |-> op[c].entry, to |-> op[c].to,
                   n |-> getNextVersionNumber(op[c].k)]
  <2>1. op' = [op EXCEPT ![c] = o] /\ UNCHANGED tables /\ unrecorded' = unrecorded /\ op[c].pc = "next"
    BY <1>12 DEF nextVersion, Proceed, tables
  <2>2. o.pc = "version" /\ o.k = op[c].k /\ o.entry = op[c].entry
    OBVIOUS
  <2> HIDE DEF o
  <2>3. \A k \in Contracts, what \in Milestones : Tells(op[c], k, what) <=> Tells(o, k, what)
    BY <2>1, <2>2 DEF Tells
  <2>4. o.entry.what = "ended" => RenewalComing(c) /\ op[c].k = o.k
    BY <2>1, <2>2 DEF RenewalComing, Renewing
  <2> QED
    BY <2>1, <2>2, <2>3, <2>4, HistoryQuiet DEF tables
\* A handler that has inserted its version has told its story.
<1>13. ASSUME NEW c \in Clients, NEW n, NEW entry, NEW o, Inserts(c, n, entry), Proceed(c, o),
              op[c].k \in Contracts, \A what \in Milestones : entry.what = what <=> Tells(op[c], op[c].k, what),
              \A k, what : ~Tells(o, k, what),
              \/ o.pc \notin {"write", "next", "version"}
              \/ o.k = op[c].k /\ RenewalComing(c)
       PROVE  HistoryInv'
  <2>1. PICK k \in Contracts : k = op[c].k
    BY <1>13
  <2>2. PICK v : v = [n |-> n, entry |-> entry]
    OBVIOUS
  <2>3. /\ op' = [op EXCEPT ![c] = o] /\ row' = row /\ unrecorded' = unrecorded
        /\ ContractExists(k) /\ versions'[k] = versions[k] \cup {v}
        /\ \A j \in Contracts \ {k} : versions'[j] = versions[j]
    BY <1>13, <2>1, <2>2 DEF Proceed, Inserts, TypeInv, TypeOK
  <2>4. v \notin versions[k] /\ v.entry = entry
    BY <1>13, <2>1, <2>2 DEF Inserts, Numbers
  <2>5. \A j \in Contracts \ {k} : /\ row'[j] = row[j] /\ versions'[j] = versions[j]
                                   /\ \A what \in Milestones : Tells(op[c], j, what) <=> Tells(o, j, what)
    BY <1>13, <2>3, <2>1 DEF Tells
  <2>6. op' = [op EXCEPT ![c] = o] /\ versions'[k] = versions[k] \cup {v}
    BY <2>3
  <2>7. op' = [op EXCEPT ![c] = o] /\ unrecorded' = unrecorded
    BY <2>3
  <2>8. ASSUME k \notin unrecorded PROVE StoryOf(k)'
    <3>1. StoryOf(k)
      BY <2>3, <2>8 DEF HistoryInv
    <3>2. \A what \in Milestones : Happened(k, what)' = Happened(k, what)
      <4> TAKE what \in Milestones
      <4>1. what \in Summaries
        BY <1>2
      <4>2. /\ ~Tells(o, k, what)
            /\ \/ v.entry.what = what /\ Tells(op[c], k, what)
               \/ v.entry.what # what /\ ~Tells(op[c], k, what)
        BY <1>13, <2>4, <2>1
      <4>3. v \notin versions[k]
        BY <2>4
      <4>4. CASE v.entry.what = what /\ Tells(op[c], k, what)
        BY <2>6, <4>1, <4>2, <4>3, <4>4, HappenedTold
      <4>5. CASE v.entry.what # what /\ ~Tells(op[c], k, what)
        BY <2>6, <4>1, <4>2, <4>3, <4>5, HappenedTold
      <4> QED
        BY <4>2, <4>4, <4>5
    <3> QED
      BY <1>13, <2>3, <2>1, <3>1, <3>2, StoryKept
  <2>9. o.pc \notin {"write", "next", "version"} \/ o.k = k
    BY <1>13, <2>1
  <2> QED
    BY <2>5, <2>8, <2>9, <2>7, HistoryRow
<1>14. ASSUME NEW c \in Clients, createVersion(c) PROVE HistoryInv'
  <2> DEFINE write == [pc |-> "write", act |-> "renew", k |-> op[c].k, to |-> op[c].to]
             o == IF Renewing(c) THEN write ELSE Idle
  <2>1. op[c].pc = "version" /\ Inserts(c, op[c].n, op[c].entry) /\ Proceed(c, o)
    BY <1>14 DEF createVersion
  <2>2. op[c].k \in Contracts
    BY <2>1, TypeOfOps
  <2>3. write.pc = "write" /\ write.k = op[c].k
    OBVIOUS
  <2>4. \A what \in Milestones : op[c].entry.what = what <=> Tells(op[c], op[c].k, what)
    BY <2>1 DEF Tells
  <2>5. Idle.pc \notin {"write", "next", "version"}
    BY DEF Idle
  <2> HIDE DEF write
  <2>6. \A k, what : ~Tells(o, k, what)
    BY <1>4, <2>3 DEF Tells
  <2>7. \/ o.pc \notin {"write", "next", "version"}
        \/ o.k = op[c].k /\ RenewalComing(c)
    BY <2>3, <2>5 DEF RenewalComing
  <2> HIDE DEF o
  <2> QED
    BY <1>13, <2>1, <2>2, <2>4, <2>6, <2>7
<1>15. ASSUME NEW c \in Clients, createFirstVersion(c) PROVE HistoryInv'
  <2>1. op[c].k \in Contracts /\ op[c].pc = "first"
    BY <1>15, TypeOfOps DEF createFirstVersion
  <2>2. Entry("created", NoTerm).what = "created"
    BY DEF Entry
  <2>3. \A what \in Milestones : Entry("created", NoTerm).what = what <=> Tells(op[c], op[c].k, what)
    BY <2>1, <2>2 DEF Tells
  <2>4. Idle.pc \notin {"write", "next", "version"}
    BY DEF Idle
  <2> QED
    BY <1>4, <1>13, <1>15, <2>1, <2>3, <2>4 DEF createFirstVersion
<1> QED
  BY <1>1, <1>3, <1>6, <1>7, <1>9, <1>10, <1>11, <1>12, <1>14, <1>15 DEF Next, Continue

\* Once nobody is writing to it and no handler died on it, the history of a
\* contract tells how it came to its status and of every document, exactly once.
THEOREM HistoryTellsAll == Spec => []HistoryComplete
<1>1. TypeInv /\ HistoryInv => HistoryComplete
  <2> SUFFICES ASSUME TypeInv, HistoryInv, NEW k \in Contracts,
                      ContractExists(k), k \notin unrecorded, Recording(k) = {}
               PROVE  /\ Count(k, "created") = 1
                      /\ Count(k, "document") = row[k].documents
                      /\ row[k].status = "DRAFT" <=>
                            Count(k, "activated") + Count(k, "terminated") + Count(k, "expired") = 0
                      /\ row[k].status = "ACTIVE" => Count(k, "activated") > 0
                      /\ row[k].status = "TERMINATED" => Count(k, "terminated") > 0
                      /\ row[k].status = "EXPIRED" => Count(k, "expired") > 0
    BY DEF HistoryComplete
  <2>1. StoryOf(k)
    BY DEF HistoryInv
  <2>2. Milestones \subseteq Summaries
    BY DEF Milestones, Summaries
  <2>3. \A what \in Milestones : Happened(k, what) = Count(k, what) /\ Count(k, what) \in Nat
    <3> TAKE what \in Milestones
    <3>1. Cardinality(ToTell(k, what)) = 0
      <4>1. ToTell(k, what) = {}
        BY DEF ToTell, Tells, Recording
      <4> QED
        BY <4>1, FS_EmptySet
    <3>2. Count(k, what) \in Nat
      BY <2>2, HappenedNat
    <3> QED
      BY <3>1, <3>2 DEF Happened
  <2>4. row[k].status \in {"DRAFT", "ACTIVE", "EXPIRED", "TERMINATED"}
    BY <2>1, TypeOfRows DEF StoryOf, ContractExists, ContractStatus
  <2> DEFINE created == Count(k, "created")
             document == Count(k, "document")
             activated == Count(k, "activated")
             terminated == Count(k, "terminated")
             expired == Count(k, "expired")
             status == row[k].status
  <2>5. /\ created = 1 /\ document = row[k].documents
        /\ activated \in Nat /\ terminated \in Nat /\ expired \in Nat
        /\ status = "DRAFT" => activated = 0 /\ terminated = 0 /\ expired = 0
        /\ status = "ACTIVE" => activated > 0
        /\ status = "TERMINATED" => terminated > 0
        /\ status = "EXPIRED" => expired > 0
    BY <2>1, <2>3 DEF StoryOf, Milestones
  <2> HIDE DEF created, document, activated, terminated, expired, status
  <2>6. status = "DRAFT" <=> activated + terminated + expired = 0
    BY <2>4, <2>5 DEF status
  <2> QED
    BY <2>5, <2>6 DEF created, document, activated, terminated, expired, status
<1> QED
  BY <1>1, TypeInit, TypeNext, RowsInit, RowsNext, HistoryInit, HistoryNext, PTL DEF Spec

(***************************************************************************)
(* What holds until a handler writes on an overtaken read.                 *)
(***************************************************************************)
Kept(k) == row'[k].number = row[k].number /\ row'[k].documents = row[k].documents

\* What a step does to the row it writes.
Drafts(k) == /\ row[k].status = "NEW" /\ row'[k].status = "DRAFT"
             /\ row'[k].documents = 0
             /\ row'[k].number = countByOrganisation(k) + 1
             /\ InOrder(row'[k].term)

Edits(k) == /\ row[k].status \in EDITABLE_STATUSES /\ row'[k].status = row[k].status
            /\ Kept(k) /\ InOrder(row'[k].term)

Renews(k) == /\ row[k].status = "ACTIVE" /\ row'[k].status = "ACTIVE"
             /\ Kept(k) /\ InOrder(row'[k].term)
             /\ \E v \in versions[k] : v.entry = Entry("ended", row[k].term)

Concludes(k) == /\ row[k].status \in EDITABLE_STATUSES /\ row'[k].status = "ACTIVE"
                /\ Kept(k) /\ row'[k].term = row[k].term

Finishes(k) == /\ row[k].status \in {"DRAFT", "UNDER_REVIEW", "ACTIVE"}
               /\ row'[k].status \in {"TERMINATED", "EXPIRED"}
               /\ Kept(k) /\ row'[k].term = row[k].term

Annexes(k) == /\ row[k].status \in {"DRAFT", "UNDER_REVIEW", "ACTIVE"}
              /\ row'[k].status = row[k].status
              /\ row'[k].number = row[k].number /\ row'[k].term = row[k].term
              /\ row'[k].documents = row[k].documents + 1

Discards(k) == row[k].status = "DRAFT" /\ row'[k].status = "DELETED"

\* A step that writes the row of k, and the handlers it overtakes.
RowStep(k, readers) ==
    \/ Drafts(k) /\ readers = CountReaders(k) /\ versions' = versions
    \/ /\ Edits(k) \/ Renews(k) \/ Concludes(k) \/ Finishes(k)
       /\ readers = WriteReaders(k) /\ versions' = versions
    \/ Annexes(k) /\ readers = {} /\ versions' = versions
    \/ /\ Discards(k)
       /\ readers = CountReaders(k) \cup WriteReaders(k)
       /\ \A j \in Contracts \ {k} : versions'[j] = versions[j]

\* A handler goes on with no read that a later step relies on.
Relieved(o) == \/ o.pc \in {"first", "idle"}
               \/ o.pc = "next" /\ o.entry.what # "ended"

CommitStep(c, o, readers, k) == /\ Commit(c, o, readers) /\ Relieved(o)
                                /\ RowStep(k, readers)
                                /\ \A j \in Contracts \ {k} : row'[j] = row[j]

\* A handler that commits on a read nobody has overtaken finds it still true.
LEMMA CommitsOnFreshRead ==
    ASSUME UnoverlappedInv, ~staleCommit', NEW c \in Clients, NEW o, NEW readers, Commit(c, o, readers)
    PROVE  ~staleCommit /\ Fresh(c)
BY DEF Commit, UnoverlappedInv

LEMMA UnoverlappedStep ==
    ASSUME TypeInv, RowsInv, UnoverlappedInv, ~staleCommit', NEW c \in Clients,
           \/ create(c) \/ update(c) \/ renew(c) \/ activate(c) \/ terminate(c) \/ expire(c)
           \/ uploadDocument(c) \/ delete(c)
    PROVE  \E o, readers : \E k \in Contracts : CommitStep(c, o, readers, k)
<1>1. op[c].k \in Contracts
  BY TypeOfOps DEF create, update, renew, activate, terminate, expire, Writes, uploadDocument, delete
<1>2. PICK k \in Contracts : k = op[c].k
  BY <1>1
<1>3. CASE create(c)
  <2> DEFINE o == [pc |-> "first", k |-> op[c].k]
  <2>1. Commit(c, o, CountReaders(k)) /\ op[c].pc = "insert" /\ versions' = versions
    BY <1>2, <1>3 DEF create
  <2>2. row[k].status = "NEW" /\ InOrder(op[c].term) /\ op[c].number = countByOrganisation(k) + 1
    BY <1>2, <2>1, CommitsOnFreshRead DEF RowsInv, Fresh
  <2>3. /\ row'[k] = [status |-> "DRAFT", number |-> op[c].number, term |-> op[c].term, documents |-> 0]
        /\ \A j \in Contracts \ {k} : row'[j] = row[j]
    BY <1>2, <1>3 DEF create, TypeInv, TypeOK
  <2>4. Drafts(k)
    BY <2>2, <2>3 DEF Drafts
  <2>5. Relieved(o)
    BY DEF Relieved
  <2> HIDE DEF o
  <2> QED
    BY <2>1, <2>3, <2>4, <2>5 DEF CommitStep, RowStep
<1>4. CASE update(c) \/ renew(c) \/ activate(c) \/ terminate(c) \/ expire(c)
  <2>1. PICK act, written, entry : act \in RowActs /\ written \in Rows /\ RowWrite(c, act, written, entry)
    BY <1>4, RowWrites
  <2> DEFINE o == Record(k, entry, NothingMore)
  <2>2. /\ Commit(c, o, WriteReaders(k)) /\ op[c].pc = "write" /\ op[c].act = act
        /\ versions' = versions /\ ContractExists(k)
        /\ row'[k] = written /\ \A j \in Contracts \ {k} : row'[j] = row[j]
    BY <1>2, <2>1 DEF RowWrite, Writes, TypeInv, TypeOK
  <2>3. /\ row[k].status \in Demands(act)
        /\ act = "update" => InOrder(Changed(row[k].term, op[c].to))
        /\ act = "renew" => \E v \in versions[k] : v.entry = Entry("ended", row[k].term)
    BY <1>2, <2>2, CommitsOnFreshRead DEF Fresh, EndsAfterStart
  <2>4. act = "renew" => InOrder(Changed(row[k].term, op[c].to))
    <3> SUFFICES ASSUME act = "renew" PROVE InOrder(Changed(row[k].term, op[c].to))
      OBVIOUS
    <3>1. op[c].to \in Terms /\ InOrder(op[c].to)
      BY <2>2 DEF RowsInv, RenewalComing
    <3>2. row[k].term \in Terms
      BY <2>2, TypeOfRows
    <3> QED
      BY <3>1, <3>2, Dated
  <2>5. /\ act = "update" => row'[k].status = row[k].status
        /\ act \in {"renew", "activate"} => row'[k].status = "ACTIVE"
        /\ act = "terminate" => row'[k].status = "TERMINATED"
        /\ act = "expire" => row'[k].status = "EXPIRED"
        /\ act \in {"update", "renew"} => row'[k].term = Changed(row[k].term, op[c].to)
        /\ act \in {"activate", "terminate", "expire"} => row'[k].term = row[k].term
        /\ entry.what # "ended"
    BY <1>2, <2>1, <2>2 DEF RowWrite, RowActs, Found
  <2>6. Kept(k)
    BY <1>2, <2>1, <2>2 DEF RowWrite, Found, Kept
  <2>7. ASSUME act = "update" PROVE Edits(k)
    <3>1. row[k].status \in EDITABLE_STATUSES /\ InOrder(row'[k].term)
      BY <2>3, <2>5, <2>7 DEF Demands
    <3> QED
      BY <2>5, <2>6, <2>7, <3>1 DEF Edits, Kept
  <2>8. ASSUME act = "renew" PROVE Renews(k)
    <3>1. row[k].status = "ACTIVE" /\ InOrder(row'[k].term)
      BY <2>3, <2>4, <2>5, <2>8 DEF Demands, Renewable
    <3> QED
      BY <2>3, <2>5, <2>6, <2>8, <3>1 DEF Renews, Kept
  <2>9. ASSUME act = "activate" PROVE Concludes(k)
    <3>1. row[k].status \in EDITABLE_STATUSES
      BY <2>3, <2>9 DEF Demands, EDITABLE_STATUSES
    <3> QED
      BY <2>5, <2>6, <2>9, <3>1 DEF Concludes, Kept
  <2>10. ASSUME act = "terminate" PROVE Finishes(k)
    <3>1. row[k].status \in {"DRAFT", "UNDER_REVIEW", "ACTIVE"}
      BY <2>3, <2>10 DEF Demands
    <3> QED
      BY <2>5, <2>6, <2>10, <3>1 DEF Finishes, Kept
  <2>11. ASSUME act = "expire" PROVE Finishes(k)
    <3>1. row[k].status = "ACTIVE"
      BY <2>3, <2>11 DEF Demands
    <3> QED
      BY <2>5, <2>6, <2>11, <3>1 DEF Finishes, Kept
  <2>12. Edits(k) \/ Renews(k) \/ Concludes(k) \/ Finishes(k)
    BY <2>1, <2>7, <2>8, <2>9, <2>10, <2>11 DEF RowActs
  <2>13. Relieved(o)
    BY <2>5 DEF Relieved, Record
  <2> HIDE DEF o
  <2> QED
    BY <2>2, <2>12, <2>13 DEF CommitStep, RowStep
<1>5. CASE uploadDocument(c)
  <2> DEFINE o == Record(k, Entry("document", NoTerm), NothingMore)
  <2>1. /\ Commit(c, o, {}) /\ op[c].pc = "write" /\ op[c].act = "document" /\ versions' = versions
        /\ row' = [row EXCEPT ![k].documents = @ + 1] /\ ContractExists(k)
    BY <1>2, <1>5 DEF uploadDocument
  <2>2. /\ row'[k].status = row[k].status /\ row'[k].number = row[k].number
        /\ row'[k].term = row[k].term /\ row'[k].documents = row[k].documents + 1
        /\ \A j \in Contracts \ {k} : row'[j] = row[j]
    BY <2>1, TypeOfRows DEF TypeInv, TypeOK, Rows
  <2>3. row[k].status \in Demands("document")
    BY <1>2, <2>1, CommitsOnFreshRead DEF Fresh
  <2>4. Annexes(k)
    BY <2>2, <2>3 DEF Annexes, Demands, ContractStatus, READ_ONLY_STATUSES
  <2>5. Relieved(o)
    BY DEF Relieved, Record, Entry
  <2> HIDE DEF o
  <2> QED
    BY <2>1, <2>2, <2>4, <2>5 DEF CommitStep, RowStep
<1>6. CASE delete(c)
  <2>1. /\ Commit(c, Idle, CountReaders(k) \cup WriteReaders(k)) /\ op[c].pc = "write" /\ op[c].act = "delete"
        /\ row'[k] = NoContract("DELETED")
        /\ \A j \in Contracts \ {k} : row'[j] = row[j] /\ versions'[j] = versions[j]
    BY <1>2, <1>6 DEF delete, TypeInv, TypeOK
  <2>2. row[k].status \in Demands("delete")
    BY <1>2, <2>1, CommitsOnFreshRead DEF Fresh
  <2>3. Discards(k)
    BY <2>1, <2>2 DEF Discards, Demands, NoContract
  <2>4. Relieved(Idle)
    BY DEF Relieved, Idle
  <2> QED
    BY <2>1, <2>3, <2>4 DEF CommitStep, RowStep
<1> QED
  BY <1>3, <1>4, <1>5, <1>6

LEMMA CountSame ==
    ASSUME NEW k \in Contracts,
           \A j \in SameOrganisation(k) : row'[j].status \in NoRow <=> row[j].status \in NoRow
    PROVE  countByOrganisation(k)' = countByOrganisation(k)
<1> DEFINE S == {j \in SameOrganisation(k) : row[j].status \notin NoRow}
           T == {j \in SameOrganisation(k) : row'[j].status \notin NoRow}
<1>1. countByOrganisation(k) = Cardinality(S) /\ countByOrganisation(k)' = Cardinality(T)
  BY DEF countByOrganisation, ContractExists, SameOrganisation
<1>2. S = T
  OBVIOUS
<1> HIDE DEF S, T
<1> QED
  BY <1>1, <1>2

\* A contract more is counted once, by those of its organisation.
LEMMA CountMore ==
    ASSUME TypeInv, NEW k \in Contracts, row[k].status \in NoRow, row'[k].status \notin NoRow,
           \A j \in Contracts \ {k} : row'[j] = row[j], NEW i \in SameOrganisation(k)
    PROVE  countByOrganisation(i)' = countByOrganisation(i) + 1
<1> DEFINE S == {j \in SameOrganisation(i) : row[j].status \notin NoRow}
           T == {j \in SameOrganisation(i) : row'[j].status \notin NoRow}
<1>1. countByOrganisation(i) = Cardinality(S) /\ countByOrganisation(i)' = Cardinality(T)
  BY DEF countByOrganisation, ContractExists, SameOrganisation
<1>2. T = S \cup {k} /\ k \notin S
  BY DEF SameOrganisation
<1>3. IsFiniteSet(S)
  <2>1. S \in SUBSET Existing
    BY DEF Existing, ContractExists, SameOrganisation
  <2> HIDE DEF S
  <2> QED
    BY <2>1, FS_Subset DEF TypeInv
<1> HIDE DEF S, T
<1> QED
  BY <1>1, <1>2, <1>3, FS_AddElement

LEMMA CountIsNat ==
    ASSUME TypeInv, NEW k \in Contracts
    PROVE  countByOrganisation(k) \in Nat
<1> DEFINE S == {j \in SameOrganisation(k) : ContractExists(j)}
<1>1. S \in SUBSET Existing /\ countByOrganisation(k) = Cardinality(S)
  BY DEF Existing, SameOrganisation, countByOrganisation
<1> HIDE DEF S
<1> QED
  BY <1>1, FS_Subset, FS_CardinalityType DEF TypeInv

\* What a handler remembers stays true while what it has read of it does.
LEMMA StaysFresh ==
    ASSUME NEW d \in Clients, Fresh(d), op'[d] = op[d], NEW k, k = op[d].k,
           op[d].pc = "insert" => countByOrganisation(k)' = countByOrganisation(k),
           op[d].pc = "write" \/ Renewing(d) =>
               /\ row'[k].status = row[k].status /\ row'[k].term = row[k].term
               /\ versions[k] \subseteq versions'[k]
    PROVE  Fresh(d)'
<1>1. ASSUME op'[d].pc = "insert" PROVE op'[d].number = countByOrganisation(k)' + 1
  BY <1>1 DEF Fresh
<1>2. ASSUME op'[d].pc = "write"
      PROVE  /\ row'[k].status \in Demands(op'[d].act)
             /\ op'[d].act = "update" => EndsAfterStart(row'[k].term, op'[d].to)
             /\ op'[d].act = "renew" =>
                   \E v \in versions'[k] : v.entry = Entry("ended", row'[k].term)
  BY <1>2 DEF Fresh
<1>3. ASSUME Renewing(d)'
      PROVE  /\ row'[k].status \in Demands("renew")
             /\ op'[d].entry = Entry("ended", row'[k].term)
  <2>1. Renewing(d)
    BY <1>3 DEF Renewing
  <2> QED
    BY <2>1 DEF Fresh
<1>4. k = op'[d].k
  OBVIOUS
<1> QED
  BY <1>1, <1>2, <1>3, <1>4 DEF Fresh, countByOrganisation, SameOrganisation, ContractExists

\* A handler that relies on no read has none that could be overtaken.
LEMMA RelievedIsFresh ==
    ASSUME NEW d \in Clients, Relieved(op'[d])
    PROVE  Fresh(d)'
BY DEF Relieved, Fresh, Renewing

(***************************************************************************)
(* The steps that write no contract.                                       *)
(***************************************************************************)
Quiet(c) == \/ Request(c) \/ nextVersion(c) \/ createVersion(c) \/ createFirstVersion(c)
            \/ VersionTaken(c) \/ NumberRefused(c) \/ WriteFails(c) \/ Crash(c)

LEMMA QuietShape ==
    ASSUME TypeInv, NEW c \in Clients, Quiet(c)
    PROVE  /\ row' = row /\ staleCommit' = staleCommit
           /\ overtaken \ {c} \subseteq overtaken'
           /\ \A k \in Contracts : versions[k] \subseteq versions'[k]
           /\ \A d \in Clients \ {c} : op'[d] = op[d]
<1> USE DEF TypeInv, TypeOK
<1>1. CASE Request(c)
  BY <1>1 DEF Request, createRead, updateRead, renewRead, deleteRead, documentRead, statusRead,
              BeginWrite, Begin, tables
<1>2. CASE nextVersion(c)
  BY <1>2 DEF nextVersion, Proceed
<1>3. CASE createVersion(c)
  BY <1>3 DEF createVersion, Inserts, Proceed
<1>4. CASE createFirstVersion(c)
  BY <1>4 DEF createFirstVersion, Inserts, Proceed
<1>5. CASE VersionTaken(c) \/ NumberRefused(c) \/ WriteFails(c) \/ Crash(c)
  BY <1>5 DEF VersionTaken, NumberRefused, WriteFails, Crash, Abandon, tables
<1> QED
  BY <1>1, <1>2, <1>3, <1>4, <1>5 DEF Quiet

\* A request remembers what it has just read.
LEMMA RequestIsFresh ==
    ASSUME TypeInv, NEW c \in Clients, Request(c)
    PROVE  Fresh(c)'
<1>1. ASSUME NEW o, Begin(c, o) PROVE op'[c] = o /\ row' = row
  BY <1>1 DEF Begin, tables, TypeInv, TypeOK
<1>2. CASE createRead(c)
  <2>1. PICK k \in Contracts, term \in Terms :
             Begin(c, [pc |-> "insert", k |-> k, term |-> term,
                       number |-> countByOrganisation(k) + 1])
    BY <1>2 DEF createRead
  <2>2. op'[c].pc = "insert" /\ op'[c].k = k /\ op'[c].number = countByOrganisation(k) + 1
    BY <1>1, <2>1
  <2>3. countByOrganisation(k)' = countByOrganisation(k)
    BY <1>1, <2>1, CountSame
  <2> QED
    BY <2>2, <2>3 DEF Fresh, Renewing, countByOrganisation, SameOrganisation, ContractExists
<1>3. ASSUME NEW act, NEW k \in Contracts, NEW to, BeginWrite(c, act, k, to), act # "renew",
             act = "update" => EndsAfterStart(row[k].term, to)
      PROVE  Fresh(c)'
  BY <1>1, <1>3 DEF BeginWrite, Fresh, Renewing
<1>4. CASE updateRead(c)
  BY <1>3, <1>4 DEF updateRead
<1>5. CASE deleteRead(c) \/ documentRead(c) \/ statusRead(c)
  BY <1>3, <1>5 DEF deleteRead, documentRead, statusRead, StatusActs
<1>6. CASE renewRead(c)
  <2>1. PICK k \in Contracts, to \in Terms :
             /\ row[k].status \in Demands("renew")
             /\ Begin(c, Record(k, Entry("ended", row[k].term), to))
    BY <1>6 DEF renewRead
  <2>2. /\ op'[c].pc = "next" /\ op'[c].k = k /\ op'[c].entry = Entry("ended", row[k].term)
        /\ row' = row
    BY <1>1, <2>1 DEF Record
  <2> QED
    BY <2>1, <2>2 DEF Fresh
<1> QED
  BY <1>2, <1>4, <1>5, <1>6 DEF Request

\* Recording a version forgets nothing, and the record of the term that ends is
\* there when the renewal goes on.
LEMMA RecorderIsFresh ==
    ASSUME TypeInv, NEW c \in Clients, Fresh(c), nextVersion(c) \/ createVersion(c)
    PROVE  Fresh(c)'
<1>1. CASE nextVersion(c)
  <2>1. /\ op'[c].pc = "version" /\ op'[c].k = op[c].k /\ op'[c].entry = op[c].entry
        /\ op[c].pc = "next" /\ row' = row
    BY <1>1 DEF nextVersion, Proceed, TypeInv, TypeOK
  <2> QED
    BY <2>1 DEF Fresh, Renewing
<1>2. CASE createVersion(c) /\ Renewing(c)
  <2>1. op[c].k \in Contracts
    BY <1>2, TypeOfOps DEF createVersion
  <2>2. /\ op'[c].pc = "write" /\ op'[c].k = op[c].k /\ op'[c].act = "renew" /\ row' = row
        /\ [n |-> op[c].n, entry |-> op[c].entry] \in versions'[op[c].k]
    BY <1>2, <2>1 DEF createVersion, Inserts, Proceed, TypeInv, TypeOK
  <2>3. row[op[c].k].status \in Demands("renew") /\ op[c].entry = Entry("ended", row[op[c].k].term)
    BY <1>2 DEF Fresh
  <2> QED
    BY <2>2, <2>3 DEF Fresh, Renewing
<1>3. CASE createVersion(c) /\ ~Renewing(c)
  BY <1>3, RelievedIsFresh DEF createVersion, Proceed, TypeInv, TypeOK, Relieved, Idle
<1> QED
  BY <1>1, <1>2, <1>3

LEMMA QuietKeepsFresh ==
    ASSUME TypeInv, UnoverlappedInv, ~staleCommit, NEW c \in Clients, Quiet(c),
           NEW d \in Clients \ overtaken'
    PROVE  Fresh(d)'
<1>1. CASE d # c
  <2>1. op'[d] = op[d] /\ d \notin overtaken /\ row' = row
    BY <1>1, QuietShape
  <2>2. Fresh(d)
    BY <2>1 DEF UnoverlappedInv
  <2>3. PICK k : k = op[d].k
    OBVIOUS
  <2>4. op[d].pc # "idle" => k \in Contracts
    BY <2>3, TypeOfOps
  <2>5. op[d].pc = "insert" => countByOrganisation(k)' = countByOrganisation(k)
    BY <2>1, <2>4, CountSame
  <2>6. op[d].pc = "write" \/ Renewing(d) => versions[k] \subseteq versions'[k]
    BY <2>4, QuietShape DEF Renewing
  <2> QED
    BY <2>1, <2>2, <2>3, <2>5, <2>6, StaysFresh
<1>2. CASE d = c /\ Request(c)
  BY <1>2, RequestIsFresh
<1>3. CASE d = c /\ (nextVersion(c) \/ createVersion(c))
  <2>1. overtaken' = overtaken
    BY <1>3 DEF nextVersion, createVersion, Proceed
  <2> QED
    BY <1>3, <2>1, RecorderIsFresh DEF UnoverlappedInv
<1>4. CASE d = c /\ (createFirstVersion(c) \/ VersionTaken(c) \/ NumberRefused(c)
                     \/ WriteFails(c) \/ Crash(c))
  <2>1. op'[d] = Idle
    BY <1>4 DEF createFirstVersion, VersionTaken, NumberRefused, WriteFails, Crash,
                Proceed, Abandon, TypeInv, TypeOK
  <2> QED
    BY <2>1, RelievedIsFresh DEF Relieved, Idle
<1> QED
  BY <1>1, <1>2, <1>3, <1>4 DEF Quiet

(***************************************************************************)
(* The steps that write one.                                               *)
(***************************************************************************)
\* What the step does to the row of k keeps the order of its dates.
LEMMA RowStepInOrder ==
    ASSUME NEW k \in Contracts, NEW readers, RowStep(k, readers), ContractExists(k)',
           ContractExists(k) => InOrder(row[k].term)
    PROVE  InOrder(row'[k].term)
BY DEF RowStep, Drafts, Edits, Renews, Concludes, Finishes, Annexes, Discards,
       ContractExists, NoRow, EDITABLE_STATUSES

\* Whether the row comes, stays or goes.
LEMMA RowStepKinds ==
    ASSUME NEW k \in Contracts, NEW readers, RowStep(k, readers)
    PROVE  \/ /\ row[k].status = "NEW" /\ row'[k].status = "DRAFT"
              /\ row'[k].number = countByOrganisation(k) + 1 /\ versions' = versions
              /\ readers = CountReaders(k)
           \/ /\ row[k].status \in ContractStatus /\ row'[k].status \in ContractStatus
              /\ row'[k].number = row[k].number /\ versions' = versions
              /\ \/ readers = WriteReaders(k)
                 \/ row'[k].status = row[k].status /\ row'[k].term = row[k].term
           \/ /\ row[k].status = "DRAFT" /\ row'[k].status = "DELETED"
              /\ readers = CountReaders(k) \cup WriteReaders(k)
              /\ \A j \in Contracts \ {k} : versions'[j] = versions[j]
<1>1. CASE Drafts(k)
  BY <1>1 DEF RowStep, Drafts, Edits, Renews, Concludes, Finishes, Annexes, Discards, EDITABLE_STATUSES
<1>2. CASE Edits(k) \/ Renews(k) \/ Concludes(k) \/ Finishes(k)
  BY <1>2 DEF RowStep, Drafts, Edits, Renews, Concludes, Finishes, Annexes, Discards, Kept,
              ContractStatus, EDITABLE_STATUSES
<1>3. CASE Annexes(k) /\ readers = {} /\ versions' = versions
  BY <1>3 DEF Annexes, ContractStatus
<1>4. CASE /\ Discards(k)
           /\ readers = CountReaders(k) \cup WriteReaders(k)
           /\ \A j \in Contracts \ {k} : versions'[j] = versions[j]
  BY <1>4 DEF Discards
<1> QED
  BY <1>1, <1>2, <1>3, <1>4 DEF RowStep

LEMMA RowStepKeepsFresh ==
    ASSUME TypeInv, RowsInv, NEW k \in Contracts, NEW readers, RowStep(k, readers),
           \A j \in Contracts \ {k} : row'[j] = row[j],
           NEW d \in Clients, Fresh(d), op'[d] = op[d], d \notin readers
    PROVE  Fresh(d)'
<1>1. PICK i : i = op[d].k
  OBVIOUS
<1>2. CASE op[d].pc = "insert"
  <2>1. i \in Contracts /\ op[d] # Idle
    BY <1>1, <1>2, TypeOfOps
  <2>2. CASE k \in SameOrganisation(i) /\ readers # WriteReaders(k) /\ row'[k].status # row[k].status
    <3>1. d \in CountReaders(k)
      BY <1>1, <1>2, <2>1, <2>2 DEF CountReaders, InFlight, RowsRead
    <3> QED
      BY <2>2, <3>1, RowStepKinds
  <2>3. CASE k \notin SameOrganisation(i)
    <3>1. \A j \in SameOrganisation(i) : row'[j] = row[j]
      BY <2>3 DEF SameOrganisation
    <3> QED
      BY <1>1, <1>2, <2>1, <3>1, CountSame, StaysFresh DEF Renewing
  <2>4. CASE row'[k].status = row[k].status \/ readers = WriteReaders(k)
    <3>1. CASE row[k].status \in ContractStatus /\ row'[k].status \in ContractStatus
      <4>1. row[k].status \notin NoRow /\ row'[k].status \notin NoRow
        BY <3>1 DEF ContractStatus, NoRow
      <4>2. \A j \in SameOrganisation(i) : row'[j].status \in NoRow <=> row[j].status \in NoRow
        BY <4>1 DEF SameOrganisation
      <4> QED
        BY <1>1, <1>2, <2>1, <4>2, CountSame, StaysFresh DEF Renewing
    <3>2. CASE ~(row[k].status \in ContractStatus /\ row'[k].status \in ContractStatus)
      <4>1. CountReaders(k) \subseteq readers
        BY <3>2, RowStepKinds
      <4>2. k \notin SameOrganisation(i)
        BY <1>1, <1>2, <2>1, <4>1 DEF CountReaders, InFlight, RowsRead
      <4> QED
        BY <2>3, <4>2
    <3> QED
      BY <3>1, <3>2
  <2> QED
    BY <2>2, <2>3, <2>4
<1>3. CASE op[d].pc = "write" \/ Renewing(d)
  <2>1. i \in Contracts /\ op[d] # Idle /\ op[d].pc \in {"write", "next", "version"}
    BY <1>1, <1>3, TypeOfOps DEF Renewing
  <2>2. row[i].status # "NEW"
    BY <1>1, <2>1 DEF RowsInv
  <2>3. i = k => d \in WriteReaders(k)
    BY <1>1, <1>3, <2>1 DEF WriteReaders, InFlight, RowsRead
  <2>4. /\ row'[i].status = row[i].status /\ row'[i].term = row[i].term
        /\ versions[i] \subseteq versions'[i]
    BY <2>1, <2>2, <2>3, RowStepKinds
  <2> QED
    BY <1>1, <2>1, <2>4, StaysFresh
<1>4. CASE op[d].pc # "insert" /\ op[d].pc # "write" /\ ~Renewing(d)
  BY <1>1, <1>4, StaysFresh
<1> QED
  BY <1>2, <1>3, <1>4

LEMMA RowStepCounts ==
    ASSUME TypeInv, NumbersCounted, NEW k \in Contracts, NEW readers, RowStep(k, readers),
           \A j \in Contracts \ {k} : row'[j] = row[j],
           NEW i \in Contracts, ContractExists(i)',
           \A j \in SameOrganisation(i) : row'[j].status # "DELETED"
    PROVE  row'[i].number <= countByOrganisation(i)'
<1>1. i \in SameOrganisation(i) /\ SameOrganisation(i) \subseteq Contracts
  BY DEF SameOrganisation
<1>2. CASE /\ row[k].status = "NEW" /\ row'[k].status = "DRAFT"
           /\ row'[k].number = countByOrganisation(k) + 1 /\ k \in SameOrganisation(i)
  <2>1. i \in SameOrganisation(k)
    BY <1>2 DEF SameOrganisation
  <2>2. countByOrganisation(i)' = countByOrganisation(i) + 1
    BY <1>2, <2>1, CountMore DEF NoRow
  <2>3. countByOrganisation(i) \in Nat
    BY CountIsNat
  <2>4. CASE i = k
    BY <1>2, <2>2, <2>3, <2>4
  <2>5. CASE i # k
    <3>1. row'[i] = row[i] /\ ContractExists(i)
      BY <2>5 DEF ContractExists
    <3>2. \A j \in SameOrganisation(i) : row[j].status # "DELETED"
      BY <1>1, <1>2
    <3>3. row[i].number <= countByOrganisation(i) /\ row[i].number \in Nat
      BY <3>1, <3>2, TypeOfRows DEF NumbersCounted
    <3> QED
      BY <2>2, <2>3, <3>1, <3>3
  <2> QED
    BY <2>4, <2>5
<1>3. ASSUME \/ k \notin SameOrganisation(i)
             \/ /\ row[k].status \in ContractStatus /\ row'[k].status \in ContractStatus
                /\ row'[k].number = row[k].number
      PROVE  row'[i].number <= countByOrganisation(i)'
  <2>1. \A j \in SameOrganisation(i) :
           /\ row'[j].status \in NoRow <=> row[j].status \in NoRow
           /\ row[j].status # "DELETED"
           /\ row'[j].number = row[j].number
    BY <1>1, <1>3 DEF ContractStatus, NoRow
  <2>2. countByOrganisation(i)' = countByOrganisation(i)
    BY <2>1, CountSame
  <2>3. ContractExists(i)
    BY <1>1, <2>1 DEF ContractExists
  <2>4. row[i].number <= countByOrganisation(i)
    BY <2>1, <2>3 DEF NumbersCounted
  <2> QED
    BY <1>1, <2>1, <2>2, <2>4
<1> QED
  BY <1>2, <1>3, RowStepKinds

LEMMA UnoverlappedInit == ASSUME Init PROVE UnoverlappedInv
<1>1. \A k \in Contracts : ~ContractExists(k)
  BY DEF Init, NoContract, ContractExists, NoRow
<1>2. \A c \in Clients : Fresh(c)
  BY DEF Init, Idle, Fresh, Renewing
<1> QED
  BY <1>1, <1>2 DEF UnoverlappedInv, NumbersCounted

LEMMA UnoverlappedNext == ASSUME TypeInv, RowsInv, UnoverlappedInv, Next PROVE UnoverlappedInv'
<1> SUFFICES ASSUME ~staleCommit'
             PROVE  /\ \A k \in Contracts : ContractExists(k)' => InOrder(row'[k].term)
                    /\ NumbersCounted'
                    /\ \A d \in Clients \ overtaken' : Fresh(d)'
  BY DEF UnoverlappedInv
<1>1. CASE \E c \in Clients : Quiet(c)
  <2>1. PICK c \in Clients : Quiet(c)
    BY <1>1
  <2>2. row' = row /\ ~staleCommit
    BY <2>1, QuietShape
  <2>3. (\A k \in Contracts : ContractExists(k) => InOrder(row[k].term)) /\ NumbersCounted
    BY <2>2 DEF UnoverlappedInv
  <2>4. \A k \in Contracts : ContractExists(k)' <=> ContractExists(k)
    BY <2>2 DEF ContractExists
  <2>5. \A k \in Contracts : countByOrganisation(k)' = countByOrganisation(k)
    BY <2>2, CountSame
  <2>6. NumbersCounted'
    BY <2>2, <2>3, <2>4, <2>5 DEF NumbersCounted, SameOrganisation
  <2>7. \A d \in Clients \ overtaken' : Fresh(d)'
    BY <2>1, <2>2, QuietKeepsFresh
  <2> QED
    BY <2>2, <2>3, <2>4, <2>6, <2>7
<1>2. CASE \E c \in Clients :
              \/ create(c) \/ update(c) \/ renew(c) \/ activate(c) \/ terminate(c) \/ expire(c)
              \/ uploadDocument(c) \/ delete(c)
  <2>1. PICK c \in Clients : \E o, readers : \E k \in Contracts : CommitStep(c, o, readers, k)
    BY <1>2, UnoverlappedStep
  <2>2. PICK o, readers : \E k \in Contracts : CommitStep(c, o, readers, k)
    BY <2>1
  <2>3. PICK k \in Contracts : CommitStep(c, o, readers, k)
    BY <2>2
  <2>4. /\ RowStep(k, readers) /\ \A j \in Contracts \ {k} : row'[j] = row[j]
        /\ op'[c] = o /\ Relieved(o) /\ \A d \in Clients \ {c} : op'[d] = op[d]
        /\ ~staleCommit /\ overtaken' = (overtaken \cup readers) \ {c}
    BY <2>3 DEF CommitStep, Commit, TypeInv, TypeOK
  <2>5. \A j \in Contracts : ContractExists(j) => InOrder(row[j].term)
    BY <2>4 DEF UnoverlappedInv
  <2>6. \A j \in Contracts : ContractExists(j)' => InOrder(row'[j].term)
    <3>1. \A j \in Contracts \ {k} : ContractExists(j)' => ContractExists(j)
      BY <2>4 DEF ContractExists
    <3>2. ContractExists(k)' => InOrder(row'[k].term)
      BY <2>4, <2>5, RowStepInOrder
    <3> QED
      BY <2>4, <2>5, <3>1, <3>2
  <2>7. NumbersCounted
    BY <2>4 DEF UnoverlappedInv
  <2>8. \A i \in Contracts :
           ContractExists(i)' /\ (\A j \in SameOrganisation(i) : row'[j].status # "DELETED")
           => row'[i].number <= countByOrganisation(i)'
    BY <2>4, <2>7, RowStepCounts
  <2>9. NumbersCounted'
    BY <2>8 DEF NumbersCounted, SameOrganisation
  <2>10. ASSUME NEW d \in Clients \ overtaken', d # c PROVE Fresh(d)'
    <3>1. Fresh(d) /\ d \notin readers
      BY <2>4, <2>10 DEF UnoverlappedInv
    <3> QED
      BY <2>4, <2>10, <3>1, RowStepKeepsFresh
  <2>11. Fresh(c)'
    BY <2>4, RelievedIsFresh
  <2> QED
    BY <2>6, <2>9, <2>10, <2>11
<1> QED
  BY <1>1, <1>2 DEF Next, Continue, Quiet

\* All the invariants at once; the last is the one that handlers which write on an
\* overtaken read break.
AllInv == TypeInv /\ RowsInv /\ UnoverlappedInv

LEMMA Invariants == Spec => []AllInv
<1>1. Init => AllInv
  BY TypeInit, RowsInit, UnoverlappedInit DEF AllInv
<1>2. AllInv /\ [Next]_vars => AllInv'
  <2>1. AllInv /\ Next => AllInv'
    BY TypeNext, RowsNext, UnoverlappedNext DEF AllInv
  <2>2. AllInv /\ UNCHANGED vars => AllInv'
    <3> SUFFICES ASSUME AllInv, UNCHANGED vars PROVE AllInv'
      OBVIOUS
    <3> QED
      BY DEF AllInv, vars, tables, TypeInv, TypeOK, Existing, ContractExists, RowsInv,
             RenewalComing, Renewing, UnoverlappedInv, NumbersCounted, countByOrganisation,
             SameOrganisation, Fresh
  <2> QED
    BY <2>1, <2>2
<1> QED
  BY <1>1, <1>2, PTL DEF Spec

\* As long as no handler writes on an overtaken read, every contract ends after it
\* starts: a change of one date is checked with the other as it still is.
THEOREM TermsStayInOrder == Spec => []TermsInOrder
<1>1. AllInv => TermsInOrder
  BY DEF AllInv, UnoverlappedInv, TermsInOrder
<1> QED
  BY <1>1, Invariants, PTL

\* As long as no handler writes on an overtaken read, the count plus one is a free
\* number for an organisation that is alone and has deleted nothing, for any number
\* of organisations, contracts and handlers.
THEOREM NumbersAreFree == Spec => []NumberFree
<1>1. AllInv => NumberFree
  <2> SUFFICES ASSUME AllInv, NEW c \in Clients,
                      op[c].pc = "insert", c \notin overtaken, ~staleCommit,
                      \A k \in Contracts : row[k].status = "DELETED" => k \notin SameOrganisation(op[c].k),
                      \A k \in Contracts : ContractExists(k) => k \in SameOrganisation(op[c].k),
                      NEW j \in Contracts, ContractExists(j), row[j].number = op[c].number
               PROVE  FALSE
    BY DEF NumberFree, NumberTaken
  <2>1. op[c].k \in Contracts
    BY TypeOfOps DEF AllInv
  <2>2. op[c].number = countByOrganisation(op[c].k) + 1
    BY DEF AllInv, UnoverlappedInv, Fresh
  <2>3. SameOrganisation(j) = SameOrganisation(op[c].k)
    BY <2>1 DEF SameOrganisation
  <2>4. row[j].number <= countByOrganisation(j)
    <3>1. \A i \in SameOrganisation(j) : row[i].status # "DELETED"
      BY <2>3 DEF SameOrganisation
    <3> QED
      BY <3>1 DEF AllInv, UnoverlappedInv, NumbersCounted
  <2>5. countByOrganisation(j) = countByOrganisation(op[c].k) /\ countByOrganisation(j) \in Nat
    BY <2>3, CountIsNat DEF AllInv, countByOrganisation
  <2> QED
    BY <2>2, <2>4, <2>5
<1> QED
  BY <1>1, Invariants, PTL

\* The row a step writes under the agreement's eyes.
LEMMA RowStepAgrees ==
    ASSUME TypeInv, NEW k \in Contracts, NEW readers, RowStep(k, readers)
    PROVE  Deal(k)!AgreementNext
<1> USE DEF Stage
<1>1. CASE Drafts(k)
  BY <1>1 DEF Drafts, Deal!AgreementNext, Deal!DrawUp
<1>2. CASE Edits(k)
  BY <1>2 DEF Edits, Kept, EDITABLE_STATUSES, Deal!AgreementNext, Deal!Edit
<1>3. CASE Renews(k)
  BY <1>3 DEF Renews, Kept, Deal!AgreementNext, Deal!Renew
<1>4. CASE Concludes(k)
  BY <1>4 DEF Concludes, Kept, EDITABLE_STATUSES, Deal!AgreementNext, Deal!Conclude
<1>5. CASE Finishes(k)
  BY <1>5 DEF Finishes, Kept, Deal!AgreementNext, Deal!End
<1>6. CASE Annexes(k)
  BY <1>6 DEF Annexes, Deal!AgreementNext, Deal!Annex
<1>7. CASE Discards(k)
  BY <1>7 DEF Discards, Deal!AgreementNext, Deal!Discard
<1> QED
  BY <1>1, <1>2, <1>3, <1>4, <1>5, <1>6, <1>7 DEF RowStep

\* A step writes no row, or the row of one contract in one of the ways of RowStep.
LEMMA OneRowStep ==
    ASSUME AllInv, [Next]_vars, ~staleCommit', NEW k \in Contracts, row'[k] # row[k]
    PROVE  \E readers : RowStep(k, readers)
<1>1. row' # row
  OBVIOUS
<1>2. Next
  BY <1>1 DEF vars, tables
<1>3. PICK c \in Clients :
         \/ create(c) \/ update(c) \/ renew(c) \/ activate(c) \/ terminate(c) \/ expire(c)
         \/ uploadDocument(c) \/ delete(c)
  <2>1. \A d \in Clients : ~Quiet(d)
    BY <1>1, QuietShape DEF AllInv
  <2> QED
    BY <1>2, <2>1 DEF Next, Continue, Quiet
<1>4. PICK o, readers : \E j \in Contracts : CommitStep(c, o, readers, j)
  BY <1>3, UnoverlappedStep DEF AllInv
<1> QED
  BY <1>4 DEF CommitStep

\* As long as no handler writes on an overtaken read, the term of a contract in force
\* is replaced only after the history has the entry that tells of it.
THEOREM OldTermIsOnRecord == Spec => RenewalKeepsTheOldTerm
<1>1. AllInv /\ [Next]_vars =>
         [~staleCommit' =>
             \A k \in Contracts :
                row[k].status = "ACTIVE" /\ row'[k].term # row[k].term =>
                    \E v \in versions[k] : v.entry = Entry("ended", row[k].term)]_vars
  <2> SUFFICES ASSUME AllInv, [Next]_vars, ~staleCommit', NEW k \in Contracts,
                      row[k].status = "ACTIVE", row'[k].term # row[k].term
               PROVE  \E v \in versions[k] : v.entry = Entry("ended", row[k].term)
    OBVIOUS
  <2>1. PICK readers : RowStep(k, readers)
    BY OneRowStep
  <2>2. Renews(k)
    BY <2>1 DEF RowStep, Drafts, Edits, Concludes, Finishes, Annexes, Discards, EDITABLE_STATUSES
  <2> QED
    BY <2>2 DEF Renews
<1> QED
  BY <1>1, Invariants, PTL DEF Spec, RenewalKeepsTheOldTerm

\* As long as no handler writes on an overtaken read, the API implements the
\* Agreement: every contract starts as one, and each step that changes its row is a
\* step of it.
THEOREM AgreementImplemented == Spec => KeepsTheAgreement
<1>1. Init => \A k \in Contracts : Deal(k)!AgreementInit
  BY DEF Init, NoContract, Stage, Deal!AgreementInit
<1>2. AllInv /\ [Next]_vars =>
         [~staleCommit' =>
             \A k \in Contracts : UNCHANGED row[k] \/ Deal(k)!AgreementNext]_vars
  <2> SUFFICES ASSUME AllInv, [Next]_vars, ~staleCommit', NEW k \in Contracts, row'[k] # row[k]
               PROVE  Deal(k)!AgreementNext
    OBVIOUS
  <2> QED
    BY OneRowStep, RowStepAgrees DEF AllInv
<1> QED
  BY <1>1, <1>2, Invariants, PTL DEF Spec, KeepsTheAgreement
=============================================================================
