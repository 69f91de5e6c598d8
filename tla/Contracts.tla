----------------------------- MODULE Contracts -----------------------------
(***************************************************************************)
(* The contracts of several organisations, their numbers, documents and    *)
(* version history: ContractsService and ContractRepository.               *)
(*                                                                         *)
(* As elsewhere a handler reads the contract, checks what it read and      *)
(* writes by id.  Here it goes on: recordVersion reads the largest version *)
(* number of the contract and inserts the next one, two statements more.   *)
(* A renewal records the period that ends before it writes the new one.    *)
(*                                                                         *)
(* History variables: overtaken and staleCommit as in Receiving.tla;       *)
(* unrecorded holds the contracts of which a version could not be written, *)
(* its handler having died or lost the number to another; requests counts  *)
(* the requests begun, of which there are at most MaxRequests.             *)
(***************************************************************************)
EXTENDS Integers, FiniteSets, FiniteSetsExt

CONSTANTS
    Clients,        \* handlers that may be in flight together
    Contracts,      \* identities of contracts
    Organisation,   \* the organisation each contract belongs to
    Dates,          \* the days a term may start or end on
    MaxRequests     \* bound: requests begun in a behaviour

ASSUME ContractsAssumption == Dates \subseteq Nat \ {0} /\ MaxRequests \in Nat

VARIABLES row, versions, op, overtaken, staleCommit, unrecorded, requests

tables == <<row, versions>>
vars == <<row, versions, op, overtaken, staleCommit, unrecorded, requests>>

(***************************************************************************)
(* The tables.                                                             *)
(***************************************************************************)
ContractStatus == {"DRAFT", "UNDER_REVIEW", "ACTIVE", "EXPIRED", "TERMINATED"}
NoRow == {"NEW", "DELETED"}       \* before the row exists and after its deletion

Ends == {"start", "end"}
Terms == [Ends -> Dates]
NoTerm == [e \in Ends |-> 0]

Rows == [status : ContractStatus \cup NoRow, number : Nat, term : Terms \cup {NoTerm},
         documents : Nat]
NoContract(st) == [status |-> st, number |-> 0, term |-> NoTerm, documents |-> 0]

\* One row of the history: what was done and, around a renewal, which term it is
\* about (changeSummary).
Summaries == {"created", "updated", "activated", "ended", "renewed", "terminated", "expired",
              "document"}
Entries == [what : Summaries, term : Terms \cup {NoTerm}]
Versions == [n : Nat, entry : Entries]

ContractExists(k) == row[k].status \notin NoRow
SameOrganisation(k) == {j \in Contracts : Organisation[j] = Organisation[k]}
NumberTaken(n) == \E k \in Contracts : ContractExists(k) /\ row[k].number = n

EDITABLE_STATUSES == {"DRAFT", "UNDER_REVIEW"}
READ_ONLY_STATUSES == {"EXPIRED", "TERMINATED"}

\* The dates a request gives, and the dates of a term once they are written to it.
Changes == UNION {[D -> Dates] : D \in SUBSET Ends}

\* Faulty variant: a date that is not given is cleared.
changedOrCleared(term, to) == [e \in Ends |-> IF e \in DOMAIN to THEN to[e] ELSE 0]
Changed(term, to) == [e \in Ends |-> IF e \in DOMAIN to THEN to[e] ELSE term[e]]

InOrder(term) == term["start"] < term["end"]

\* Faulty variant: only a request that gives both dates is checked.
inOrderIfBothGiven(term, to) == DOMAIN to = Ends => InOrder(Changed(term, to))
EndsAfterStart(term, to) == InOrder(Changed(term, to))

(***************************************************************************)
(* Handlers in flight, and the rows each has read.                         *)
(***************************************************************************)
Idle == [pc |-> "idle"]
StatusActs == {"activate", "terminate", "expire"}
Acts == StatusActs \cup {"update", "renew", "delete", "document"}

\* insert and first: create, before the contract and before its first version;
\* write: before the write of act; next and version: recordVersion, before
\* the number is read and before the version is inserted.  to is the change a
\* renewal has still to write.
Ops == {Idle}
       \cup [pc : {"insert"}, k : Contracts, number : Nat, term : Terms]
       \cup [pc : {"first"}, k : Contracts]
       \cup [pc : {"write"}, act : Acts, k : Contracts, to : Changes]
       \cup [pc : {"next"}, k : Contracts, entry : Entries, to : Changes]
       \cup [pc : {"version"}, k : Contracts, entry : Entries, to : Changes, n : Nat]

InFlight == {c \in Clients : op[c] # Idle}
Recording(k) == {c \in Clients : op[c].pc \in {"first", "next", "version"} /\ op[c].k = k}

\* A renewal that records the old term has its write still to come.
Renewing(c) == op[c].pc \in {"next", "version"} /\ op[c].entry.what = "ended"

\* An insert has counted the organisation's contracts, a write has read its own.
RowsRead(c) == IF op[c].pc = "insert" THEN SameOrganisation(op[c].k)
               ELSE IF op[c].pc = "write" \/ Renewing(c) THEN {op[c].k}
               ELSE {}

Begin(c, o) == /\ op[c] = Idle
               /\ requests < MaxRequests
               /\ requests' = requests + 1
               /\ op' = [op EXCEPT ![c] = o]
               /\ UNCHANGED <<tables, overtaken, staleCommit, unrecorded>>

\* c creates or deletes contract k: who counted it is overtaken as well.
CountReaders(k) == {d \in InFlight : op[d].pc = "insert" /\ k \in RowsRead(d)}
WriteReaders(k) == {d \in InFlight : op[d].pc # "insert" /\ k \in RowsRead(d)}

\* c writes and goes on as o; the handlers that have read what it writes are overtaken.
Commit(c, o, readers) ==
    /\ op' = [op EXCEPT ![c] = o]
    /\ staleCommit' = (staleCommit \/ c \in overtaken)
    /\ overtaken' = IF staleCommit' THEN {} ELSE (overtaken \cup readers) \ {c}
    /\ UNCHANGED <<unrecorded, requests>>

\* c goes on as o without having written a contract.
Proceed(c, o) == /\ op' = [op EXCEPT ![c] = o]
                 /\ UNCHANGED <<row, overtaken, staleCommit, requests>>

\* c ends, having failed or died; a version it had still to write is missing.
Abandon(c, missing) == /\ op' = [op EXCEPT ![c] = Idle]
                       /\ overtaken' = overtaken \ {c}
                       /\ unrecorded' = unrecorded \cup missing
                       /\ UNCHANGED <<tables, staleCommit, requests>>

Init == /\ row = [k \in Contracts |-> NoContract("NEW")]
        /\ versions = [k \in Contracts |-> {}]
        /\ op = [c \in Clients |-> Idle]
        /\ overtaken = {} /\ staleCommit = FALSE /\ unrecorded = {}
        /\ requests = 0

(***************************************************************************)
(* recordVersion: the largest number so far plus one, then the row of that *)
(* number, unless another handler has inserted it or the contract is gone. *)
(***************************************************************************)
Numbers(k) == {v.n : v \in versions[k]}

\* Faulty variant: the history starts at two when its first row is missing.
numberAfterTheFirst(k) == IF versions[k] = {} THEN 2 ELSE Max(Numbers(k)) + 1
getNextVersionNumber(k) == IF versions[k] = {} THEN 1 ELSE Max(Numbers(k)) + 1

Entry(what, term) == [what |-> what, term |-> term]
NothingMore == [e \in {} |-> 0]
Record(k, entry, to) == [pc |-> "next", k |-> k, entry |-> entry, to |-> to]

nextVersion(c) ==
    /\ op[c].pc = "next"
    /\ Proceed(c, [pc |-> "version", k |-> op[c].k, entry |-> op[c].entry, to |-> op[c].to,
                   n |-> getNextVersionNumber(op[c].k)])
    /\ UNCHANGED <<versions, unrecorded>>

Inserts(c, n, entry) ==
    /\ ContractExists(op[c].k)
    /\ n \notin Numbers(op[c].k)
    /\ versions' = [versions EXCEPT ![op[c].k] = @ \cup {[n |-> n, entry |-> entry]}]
    /\ UNCHANGED unrecorded

createVersion(c) ==
    /\ op[c].pc = "version"
    /\ Inserts(c, op[c].n, op[c].entry)
    /\ Proceed(c, IF Renewing(c)
                  THEN [pc |-> "write", act |-> "renew", k |-> op[c].k, to |-> op[c].to]
                  ELSE Idle)

\* @@unique([contractId, version]): the insert fails and the handler with it.
VersionTaken(c) ==
    /\ \/ op[c].pc = "version" /\ op[c].n \in Numbers(op[c].k)
       \/ op[c].pc = "first" /\ 1 \in Numbers(op[c].k)
    /\ Abandon(c, {op[c].k})

(***************************************************************************)
(* create: the organisation's count plus one is the number, which is       *)
(* unique among the contracts of all organisations.                        *)
(***************************************************************************)
\* Faulty variant: contracts that have ended are not counted.
countOpen(k) == Cardinality({j \in SameOrganisation(k) :
                                ContractExists(j) /\ row[j].status \notin READ_ONLY_STATUSES})
countByOrganisation(k) == Cardinality({j \in SameOrganisation(k) : ContractExists(j)})

createRead(c) ==
    \E k \in Contracts, term \in Terms :
        /\ row[k].status = "NEW"
        /\ \A d \in Clients : op[d].pc = "insert" => op[d].k # k
        /\ InOrder(term)
        /\ Begin(c, [pc |-> "insert", k |-> k, term |-> term,
                     number |-> countByOrganisation(k) + 1])

create(c) ==
    /\ op[c].pc = "insert"
    /\ ~NumberTaken(op[c].number)
    /\ row' = [row EXCEPT ![op[c].k] = [status |-> "DRAFT", number |-> op[c].number,
                                        term |-> op[c].term, documents |-> 0]]
    /\ Commit(c, [pc |-> "first", k |-> op[c].k], CountReaders(op[c].k))
    /\ UNCHANGED versions

\* contractNumber is @unique: the request fails and leaves nothing behind.
NumberRefused(c) == /\ op[c].pc = "insert"
                    /\ NumberTaken(op[c].number)
                    /\ Abandon(c, {})

createFirstVersion(c) ==
    /\ op[c].pc = "first"
    /\ Inserts(c, 1, Entry("created", NoTerm))
    /\ Proceed(c, Idle)

(***************************************************************************)
(* The other handlers: what each demands of the contract it reads, and     *)
(* what it writes to the contract it finds.                                *)
(***************************************************************************)
\* Faulty variant: a contract that has expired may still be renewed.
renewableOrExpired == {"ACTIVE", "EXPIRED"}
Renewable == {"ACTIVE"}

Demands(act) ==
    CASE act = "update" -> EDITABLE_STATUSES
      [] act = "delete" -> {"DRAFT"}
      [] act = "activate" -> {"DRAFT", "UNDER_REVIEW"}
      [] act = "renew" -> Renewable
      [] act = "terminate" -> {"DRAFT", "UNDER_REVIEW", "ACTIVE"}
      [] act = "expire" -> {"ACTIVE"}
      [] act = "document" -> ContractStatus \ READ_ONLY_STATUSES

\* A request that is checked and written next.
BeginWrite(c, act, k, to) ==
    /\ row[k].status \in Demands(act)
    /\ Begin(c, [pc |-> "write", act |-> act, k |-> k, to |-> to])

updateRead(c) == \E k \in Contracts, to \in Changes :
                    /\ ContractExists(k)
                    /\ EndsAfterStart(row[k].term, to)
                    /\ BeginWrite(c, "update", k, to)

\* Faulty variant: the new term is written without a record of the old one.
renewAtOnceRead(c) == \E k \in Contracts, to \in Terms :
                        InOrder(to) /\ BeginWrite(c, "renew", k, to)

renewRead(c) == \E k \in Contracts, to \in Terms :
                    /\ row[k].status \in Demands("renew")
                    /\ InOrder(to)
                    /\ Begin(c, Record(k, Entry("ended", row[k].term), to))

deleteRead(c) == \E k \in Contracts : BeginWrite(c, "delete", k, NothingMore)
documentRead(c) == \E k \in Contracts : BeginWrite(c, "document", k, NothingMore)
statusRead(c) == \E k \in Contracts, act \in StatusActs : BeginWrite(c, act, k, NothingMore)

\* The write of act, after which its version is recorded.
Writes(c, act, written, entry) ==
    /\ op[c].pc = "write" /\ op[c].act = act
    /\ ContractExists(op[c].k)
    /\ row' = [row EXCEPT ![op[c].k] = written]
    /\ Commit(c, Record(op[c].k, entry, NothingMore), WriteReaders(op[c].k))
    /\ UNCHANGED versions

Found(c) == row[op[c].k]

update(c) == Writes(c, "update", [Found(c) EXCEPT !.term = Changed(@, op[c].to)],
                    Entry("updated", NoTerm))

renew(c) == Writes(c, "renew", [Found(c) EXCEPT !.status = "ACTIVE",
                                                !.term = Changed(@, op[c].to)],
                   Entry("renewed", Changed(Found(c).term, op[c].to)))

activate(c) == Writes(c, "activate", [Found(c) EXCEPT !.status = "ACTIVE"],
                      Entry("activated", NoTerm))

\* Faulty variant: the termination is not recorded.
terminateOnly(c) == /\ op[c].pc = "write" /\ op[c].act = "terminate"
                    /\ ContractExists(op[c].k)
                    /\ row' = [row EXCEPT ![op[c].k].status = "TERMINATED"]
                    /\ Commit(c, Idle, WriteReaders(op[c].k))
                    /\ UNCHANGED versions

terminate(c) == Writes(c, "terminate", [Found(c) EXCEPT !.status = "TERMINATED"],
                       Entry("terminated", NoTerm))

expire(c) == Writes(c, "expire", [Found(c) EXCEPT !.status = "EXPIRED"],
                    Entry("expired", NoTerm))

\* The document is a row of its own: no handler that read the contract is overtaken.
uploadDocument(c) ==
    /\ op[c].pc = "write" /\ op[c].act = "document"
    /\ ContractExists(op[c].k)
    /\ row' = [row EXCEPT ![op[c].k].documents = @ + 1]
    /\ Commit(c, Record(op[c].k, Entry("document", NoTerm), NothingMore), {})
    /\ UNCHANGED versions

\* Versions and documents go with the contract (onDelete: Cascade).
delete(c) ==
    /\ op[c].pc = "write" /\ op[c].act = "delete"
    /\ ContractExists(op[c].k)
    /\ row' = [row EXCEPT ![op[c].k] = NoContract("DELETED")]
    /\ versions' = [versions EXCEPT ![op[c].k] = {}]
    /\ Commit(c, Idle, CountReaders(op[c].k) \cup WriteReaders(op[c].k))

\* Prisma finds no row to update, or no contract for the row to insert.
WriteFails(c) == /\ op[c].pc \in {"write", "first", "version"}
                 /\ ~ContractExists(op[c].k)
                 /\ Abandon(c, {})

\* The process dies, the database stays as it is.
Crash(c) == /\ c \in InFlight
            /\ Abandon(c, IF op[c].pc \in {"first", "next", "version"} THEN {op[c].k} ELSE {})

Request(c) == createRead(c) \/ updateRead(c) \/ renewRead(c) \/ deleteRead(c)
              \/ documentRead(c) \/ statusRead(c)

Continue(c) == \/ create(c) \/ NumberRefused(c) \/ createFirstVersion(c)
               \/ update(c) \/ renew(c) \/ activate(c) \/ terminate(c) \/ expire(c)
               \/ uploadDocument(c) \/ delete(c)
               \/ nextVersion(c) \/ createVersion(c) \/ VersionTaken(c)
               \/ WriteFails(c)

Next == \E c \in Clients : Request(c) \/ Continue(c) \/ Crash(c)

Spec == Init /\ [][Next]_vars

(***************************************************************************)
(* Properties.                                                             *)
(***************************************************************************)
\* Every table, handler and history variable holds a value of its type.
TypeOK == /\ row \in [Contracts -> Rows]
          /\ versions \in [Contracts -> SUBSET Versions]
          /\ op \in [Clients -> Ops]
          /\ overtaken \in SUBSET Clients
          /\ staleCommit \in BOOLEAN
          /\ unrecorded \in SUBSET Contracts
          /\ requests \in 0 .. MaxRequests

\* However handlers overlap, fail or die, the versions of a contract are numbered
\* 1, 2, 3 and so on, without a gap and none twice (getNextVersionNumber,
\* createVersion and the literal 1 of create).
VersionsGapless ==
    \A k \in Contracts : Numbers(k) = 1 .. Cardinality(versions[k])

\* The versions of k that tell of what.
Told(k, what) == {v \in versions[k] : v.entry.what = what}
Count(k, what) == Cardinality(Told(k, what))

\* A contract's history tells how it came to its status and of every document,
\* once the handlers that record its versions are over, unless one of them died
\* or lost its number to another.
HistoryComplete ==
    \A k \in Contracts :
        ContractExists(k) /\ k \notin unrecorded /\ Recording(k) = {} =>
            /\ Count(k, "created") = 1
            /\ Count(k, "document") = row[k].documents
            /\ row[k].status = "DRAFT" <=>
                  Count(k, "activated") + Count(k, "terminated") + Count(k, "expired") = 0
            /\ row[k].status = "ACTIVE" => Count(k, "activated") > 0
            /\ row[k].status = "TERMINATED" => Count(k, "terminated") > 0
            /\ row[k].status = "EXPIRED" => Count(k, "expired") > 0

\* As long as no handler writes on an overtaken read, a contract ends after it
\* starts, although a request may change one date and is checked with the other
\* as it was read.
TermsInOrder ==
    ~staleCommit => \A k \in Contracts : ContractExists(k) => InOrder(row[k].term)

\* A create whose count is not overtaken finds its number free, if its
\* organisation is the only one with contracts and has deleted none: the number
\* of the document is the count plus one (generateContractNumber).
NumberFree ==
    \A c \in Clients :
        /\ op[c].pc = "insert" /\ c \notin overtaken /\ ~staleCommit
        /\ \A k \in Contracts : row[k].status = "DELETED" => k \notin SameOrganisation(op[c].k)
        /\ \A k \in Contracts : ContractExists(k) => k \in SameOrganisation(op[c].k)
        => ~NumberTaken(op[c].number)

\* As long as no handler writes on an overtaken read, no term of a contract in
\* force is replaced before its history tells of it (renew records the period
\* that ends before it writes the new one, so that a crash cannot lose it).
RenewalKeepsTheOldTerm ==
    [][~staleCommit' =>
          \A k \in Contracts :
             row[k].status = "ACTIVE" /\ row'[k].term # row[k].term =>
                 \E v \in versions[k] : v.entry = Entry("ended", row[k].term)]_vars

Stage == [NEW |-> "none", DRAFT |-> "draft", UNDER_REVIEW |-> "draft", ACTIVE |-> "inForce",
          EXPIRED |-> "ended", TERMINATED |-> "ended", DELETED |-> "discarded"]

Deal(k) == INSTANCE Agreement WITH
    stage <- Stage[row[k].status], term <- row[k].term, annexes <- row[k].documents

\* As long as no handler writes on an overtaken read, every contract is an
\* Agreement: 'Only draft or under-review contracts can be edited', 'Only active
\* contracts can be renewed', 'Terminated contracts cannot be reactivated'.
KeepsTheAgreement ==
    /\ \A k \in Contracts : Deal(k)!AgreementInit
    /\ [][~staleCommit' =>
             \A k \in Contracts : UNCHANGED row[k] \/ Deal(k)!AgreementNext]_vars
=============================================================================
