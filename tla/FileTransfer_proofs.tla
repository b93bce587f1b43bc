------------------------- MODULE FileTransfer_proofs -------------------------
(***************************************************************************)
(* For any folders, files and jobs: no transfer loses a file, one that     *)
(* reports success has delivered, and none leaves a broken copy.  The      *)
(* invariant follows each file that the job in hand stands for: until it   *)
(* is copied it is still to do, and from then on it has landed, at a place *)
(* the job will not remove.                                                *)
(*                                                                         *)
(* A folder that is moved into its own parent does lose files (see         *)
(* MCFileTransferSelf), so the theorems about moves leave that job out.    *)
(***************************************************************************)
EXTENDS FileTransfer, TLAPS

\* No job cuts a folder and pastes it where it is.
FoldersMoveElsewhere == \A j \in Jobs : j.op = "move" /\ j.only = All => j.from # j.to

Working == wpc # "none"
Copying == wpc \in {"next", "copy"}

TransferTypes ==
  /\ store \in [Places -> Data \cup {Nothing, Partial}]
  /\ busy \in BOOLEAN
  /\ wpc \in {"none", "begin", "next", "copy", "remove"}
  /\ busy <=> Working
  /\ Working \/ status = "completed" => job \in Jobs
  /\ Working => status \in {"scanning", "transferring"}
  /\ todo \subseteq Names /\ left \subseteq Names
  /\ ~Working => todo = {} /\ left = {}
  /\ Working /\ job.only # All => todo \subseteq {job.only} /\ left \subseteq {job.only}
  /\ Copying => job.op \in {"copy", "move"}
  /\ wpc = "remove" => job.op \in {"delete", "move"}
  /\ wpc = "copy" => here \in todo /\ dst \in Names

\* A broken copy exists only while the worker is writing it.
PartialInHand ==
  /\ \A p \in Places : store[p] = Partial => wpc = "copy" /\ p = <<job.to, dst>>
  /\ wpc = "copy" => store[<<job.to, dst>>] = Partial

\* A place in the landing folder that the job does not remove afterwards.
Stays(m) == ~(job.op = "move" /\ job.from = job.to /\ m = job.only)
Landed(d) == d \in unprotected \/ \E m \in Names : Stays(m) /\ store[<<job.to, m>>] = d
ToDo(d) == \E n \in todo : store[<<job.from, n>>] = d

NothingGone == \A d \in Data : d \in unprotected \/ \E p \in Places : store[p] = d

CopyAccounts ==
  Copying =>
    /\ \A d \in promised : d \in Data /\ (Landed(d) \/ ToDo(d))
    /\ job.op = "move" =>
         \A n \in SourceNames(job) : store[<<job.from, n>>] \in Data =>
           n \in todo \/ Landed(store[<<job.from, n>>])

RemoveAccounts ==
  /\ wpc = "remove" /\ job.op = "move" => \A d \in promised : d \in Data /\ Landed(d)
  /\ wpc = "remove" => \A n \in left : store[<<job.from, n>>] \in Data =>
       IF job.op = "move" THEN Landed(store[<<job.from, n>>])
                          ELSE store[<<job.from, n>>] \in unprotected

DeleteIsAsked ==
  wpc = "begin" /\ job.op = "delete" =>
    \A n \in SourceNames(job) : store[<<job.from, n>>] \in unprotected

Delivered == status = "completed" /\ job.op # "delete" => \A d \in promised : Landed(d)

TransferInv ==
  /\ TransferTypes /\ PartialInHand /\ NothingGone
  /\ CopyAccounts /\ RemoveAccounts /\ DeleteIsAsked /\ Delivered

-----------------------------------------------------------------------------
LEMMA Kinds == /\ Nothing \notin Data /\ Partial \notin Data /\ Nothing # Partial
               /\ All \notin Names
  BY PlacesAssumption DEF Data

LEMMA JobFields ==
  ASSUME NEW j \in Jobs
  PROVE  /\ j.op \in Ops /\ j.from \in Folders /\ j.to \in Folders
         /\ j.only \in Names \cup {All}
  BY JobsAssumption

LEMMA PlaceAt == \A f \in Folders, n \in Names : <<f, n>> \in Places
  BY DEF Places

LEMMA SourcesAreNames == \A j \in Jobs : /\ SourceNames(j) \subseteq Names
                                         /\ j.only # All => SourceNames(j) \subseteq {j.only}
  BY DEF SourceNames, Held

\* The free name is one of the folder's, and taken only when none is free.
LEMMA FreeName ==
  ASSUME NEW f \in Folders, NEW n \in Names
  PROVE  /\ ResolveDestination(f, n) \in Names
         /\ FreeNames(f) # {} => store[<<f, ResolveDestination(f, n)>>] = Nothing
<1>1. CASE n \in FreeNames(f) \/ FreeNames(f) = {}
  BY <1>1 DEF ResolveDestination, FreeNames, Held
<1>2. CASE ~(n \in FreeNames(f) \/ FreeNames(f) = {})
  <2>1. PICK c \in Names : c \in FreeNames(f)
    BY <1>2 DEF FreeNames
  <2>2. ResolveDestination(f, n) = CHOOSE x \in Names : x \in FreeNames(f)
    BY <1>2 DEF ResolveDestination
  <2>3. ResolveDestination(f, n) \in FreeNames(f)
    BY <2>1, <2>2
  <2>4. QED
    BY <2>3 DEF FreeNames, Held
<1>3. QED
  BY <1>1, <1>2

\* One place is written.
LEMMA Written ==
  ASSUME TransferTypes, NEW q \in Places, NEW v \in Data \cup {Nothing, Partial},
         store' = [store EXCEPT ![q] = v]
  PROVE  /\ store' \in [Places -> Data \cup {Nothing, Partial}]
         /\ store'[q] = v
         /\ \A p \in Places : p # q => store'[p] = store[p]
  BY DEF TransferTypes

\* The initial state satisfies the invariant.
LEMMA TransferStarts == TransferInit => TransferInv
<1> SUFFICES ASSUME TransferInit PROVE TransferInv
  OBVIOUS
<1> USE DEF TransferInit, Working, Copying
<1>1. TransferTypes
  BY DEF TransferTypes, Data
<1>2. PartialInHand
  BY PlacesAssumption DEF PartialInHand
<1>3. NothingGone
  BY PlacesAssumption DEF NothingGone, Data
<1>4. CopyAccounts /\ RemoveAccounts /\ DeleteIsAsked /\ Delivered
  BY DEF CopyAccounts, RemoveAccounts, DeleteIsAsked, Delivered
<1>5. QED
  BY <1>1, <1>2, <1>3, <1>4 DEF TransferInv
-----------------------------------------------------------------------------
LEMMA StartKeeps ==
  ASSUME TransferInv, NEW j \in Jobs, Start(j)
  PROVE  TransferInv'
<1> USE DEF TransferInv, Start, Working, Copying
<1>0. ~Working /\ wpc' \in {"none", "begin"} /\ (busy' <=> wpc' = "begin") /\ busy' \in BOOLEAN
  BY DEF TransferTypes
<1>1. TransferTypes'
  <2>1. status' \in {"scanning", "transferring"}
    OBVIOUS
  <2>2. todo' = {} /\ left' = {}
    BY <1>0 DEF TransferTypes
  <2>3. QED
    BY <1>0, <2>1, <2>2, JobFields DEF TransferTypes, Ops
<1>2. PartialInHand'
  BY <1>0 DEF PartialInHand
<1>3. NothingGone'
  BY DEF NothingGone
<1>4. CopyAccounts' /\ RemoveAccounts' /\ Delivered'
  BY <1>0 DEF CopyAccounts, RemoveAccounts, Delivered
<1>5. DeleteIsAsked'
  BY <1>0 DEF DeleteIsAsked, SourceNames, Held, DataAt
<1>6. QED
  BY <1>1, <1>2, <1>3, <1>4, <1>5

\* Cancel, ResetStatus, and steps that change nothing.
LEMMA OtherKeeps ==
  ASSUME TransferInv, Cancel \/ ResetStatus \/ UNCHANGED transferVars
  PROVE  TransferInv'
<1> USE DEF TransferInv, Working, Copying
<1>1. CASE Cancel
  BY <1>1 DEF Cancel, workerVars, ghostVars, TransferTypes, PartialInHand, NothingGone,
              CopyAccounts, RemoveAccounts, DeleteIsAsked, Delivered, Landed, ToDo, Stays,
              SourceNames, Held
<1>2. CASE ResetStatus
  BY <1>2 DEF ResetStatus, workerVars, ghostVars, TransferTypes, PartialInHand, NothingGone,
              CopyAccounts, RemoveAccounts, DeleteIsAsked, Delivered, Landed, ToDo, Stays,
              SourceNames, Held
<1>3. CASE UNCHANGED transferVars
  BY <1>3 DEF transferVars, workerVars, ghostVars, TransferTypes, PartialInHand, NothingGone,
              CopyAccounts, RemoveAccounts, DeleteIsAsked, Delivered, Landed, ToDo, Stays,
              SourceNames, Held
<1>4. QED
  BY <1>1, <1>2, <1>3
-----------------------------------------------------------------------------
(***************************************************************************)
(* The end of a job, for its part.                                         *)
(***************************************************************************)
LEMMA EndKeeps ==
  ASSUME TransferInv, Working, NEW success \in BOOLEAN, End(success),
         UNCHANGED <<cancel, job, promised, started>>,
         store' \in [Places -> Data \cup {Nothing, Partial}],
         \A p \in Places : store'[p] # Partial,
         NothingGone',
         success /\ job.op # "delete" => \A d \in promised : Landed(d)'
  PROVE  TransferInv'
<1> USE DEF TransferInv, End, Working, Copying
<1>1. TransferTypes'
  BY DEF TransferTypes
<1>2. PartialInHand'
  BY DEF PartialInHand
<1>3. CopyAccounts' /\ RemoveAccounts' /\ DeleteIsAsked'
  BY DEF CopyAccounts, RemoveAccounts, DeleteIsAsked
<1>4. Delivered'
  BY DEF Delivered
<1>5. QED
  BY <1>1, <1>2, <1>3, <1>4

\* A job that ends where it is, with nothing broken in hand.
LEMMA EndHereKeeps ==
  ASSUME TransferInv, Working, wpc # "copy", NEW success \in BOOLEAN, End(success),
         UNCHANGED <<store, cancel, job, ghostVars, started>>,
         success /\ job.op # "delete" => \A d \in promised : Landed(d)
  PROVE  TransferInv'
<1>1. store' \in [Places -> Data \cup {Nothing, Partial}] /\ \A p \in Places : store'[p] # Partial
  BY DEF TransferInv, TransferTypes, PartialInHand
<1>2. NothingGone'
  BY DEF TransferInv, NothingGone, ghostVars
<1>3. success /\ job.op # "delete" => \A d \in promised : Landed(d)'
  BY DEF Landed, Stays, ghostVars
<1>4. promised' = promised
  BY DEF ghostVars
<1>5. QED
  BY <1>1, <1>2, <1>3, <1>4, EndKeeps

LEMMA FailuresKeep ==
  ASSUME TransferInv, ScanFails \/ OpenFails
  PROVE  TransferInv'
<1>1. Working /\ wpc # "copy" /\ End(FALSE) /\ UNCHANGED <<cancel, job, promised, started>>
  BY DEF ScanFails, OpenFails, Working, ghostVars
<1>2. PICK success \in BOOLEAN : success = FALSE
  OBVIOUS
<1>3. CASE UNCHANGED <<store, unprotected>>
  BY <1>1, <1>2, <1>3, EndHereKeeps DEF ghostVars
<1>4. CASE OpenFails /\ ~UNCHANGED <<store, unprotected>>
  <2>1. PICK n \in todo :
          LET name == ResolveDestination(job.to, n) IN
            /\ store' = [store EXCEPT ![<<job.to, name>>] = Nothing]
            /\ unprotected' = unprotected \cup GivenUp(job.to, name)
    BY <1>4 DEF OpenFails
  <2> DEFINE name == ResolveDestination(job.to, n)
             q == <<job.to, name>>
  <2>2. job \in Jobs /\ job.to \in Folders /\ n \in Names /\ TransferTypes
    BY <1>1, <2>1, JobFields DEF TransferInv, TransferTypes
  <2>3. q \in Places /\ (store[q] \in unprotected' \/ store[q] = Nothing)
    BY <2>1, <2>2, FreeName, PlaceAt DEF GivenUp
  <2>4. /\ store' \in [Places -> Data \cup {Nothing, Partial}]
        /\ store'[q] = Nothing
        /\ \A p \in Places : p # q => store'[p] = store[p]
    BY <2>1, <2>2, <2>3, Written
  <2>5. unprotected \subseteq unprotected'
    BY <2>1
  <2> HIDE DEF name, q
  <2>6. \A p \in Places : store'[p] # Partial
    BY <1>1, <2>4, Kinds DEF TransferInv, PartialInHand
  <2>7. \A d \in Data, p \in Places : store[p] = d => d \in unprotected' \/ store'[p] = d
    BY <2>3, <2>4, Kinds
  <2>8. NothingGone'
    BY <2>5, <2>7 DEF TransferInv, NothingGone
  <2> QED
    BY <1>1, <1>2, <2>4, <2>6, <2>8, EndKeeps
<1> QED
  BY <1>3, <1>4 DEF ScanFails, ghostVars

LEMMA AllCopiedKeeps ==
  ASSUME TransferInv, AllCopied
  PROVE  TransferInv'
<1>1. Working /\ wpc # "copy" /\ End(TRUE)
  BY DEF AllCopied, Working
<1>2. UNCHANGED <<store, cancel, job, ghostVars, started>>
  BY DEF AllCopied
<1>3. PICK success \in BOOLEAN : success = TRUE
  OBVIOUS
<1>4. \A d \in promised : Landed(d)
  BY DEF AllCopied, TransferInv, CopyAccounts, Copying, ToDo
<1>5. QED
  BY <1>1, <1>2, <1>3, <1>4, EndHereKeeps

LEMMA RemoveEndKeeps ==
  ASSUME TransferInv, RemoveEnd
  PROVE  TransferInv'
<1>1. Working /\ wpc # "copy" /\ End(SourceNames(job) = {})
  BY DEF RemoveEnd, Working
<1>2. UNCHANGED <<store, cancel, job, ghostVars, started>>
  BY DEF RemoveEnd
<1>3. PICK success \in BOOLEAN : success = (SourceNames(job) = {})
  OBVIOUS
<1>4. job.op # "delete" => \A d \in promised : Landed(d)
  BY DEF RemoveEnd, TransferInv, TransferTypes, RemoveAccounts
<1>5. QED
  BY <1>1, <1>2, <1>3, <1>4, EndHereKeeps

\* The broken copy is unlinked, and nothing else.
LEMMA GiveUpFileKeeps ==
  ASSUME TransferInv, GiveUpFile
  PROVE  TransferInv'
<1>1. Working /\ End(FALSE) /\ UNCHANGED <<cancel, job, ghostVars, started>>
  BY DEF GiveUpFile, Working
<1> DEFINE q == <<job.to, dst>>
<1>2. q \in Places /\ store[q] = Partial /\ store' = [store EXCEPT ![q] = Nothing]
  BY JobFields, PlaceAt DEF TransferInv, TransferTypes, GiveUpFile, Working, PartialInHand
<1>3. /\ store' \in [Places -> Data \cup {Nothing, Partial}]
      /\ store'[q] = Nothing
      /\ \A p \in Places : p # q => store'[p] = store[p]
  BY <1>2, Written DEF TransferInv
<1>4. \A p \in Places : store'[p] # Partial
  BY <1>3, Kinds DEF TransferInv, PartialInHand
<1>5. NothingGone'
  BY <1>1, <1>2, <1>3, Kinds DEF TransferInv, NothingGone, ghostVars, Data
<1>6. PICK success \in BOOLEAN : success = FALSE
  OBVIOUS
<1>7. QED
  BY <1>1, <1>3, <1>4, <1>5, <1>6, EndKeeps DEF ghostVars
-----------------------------------------------------------------------------
(***************************************************************************)
(* A rename moves every file of the source to a place that was empty.      *)
(***************************************************************************)
LEMMA RenameKeeps ==
  ASSUME TransferInv, Rename
  PROVE  TransferInv'
<1> DEFINE names == SourceNames(job)
           Value(p) == IF p[1] = job.to /\ p[2] \in names THEN store[<<job.from, p[2]>>]
                       ELSE IF p[1] = job.from /\ p[2] \in names THEN Nothing
                       ELSE store[p]
<1>1. Working /\ wpc # "copy" /\ End(TRUE) /\ UNCHANGED <<cancel, job, unprotected, started>>
  BY DEF Rename, Working
<1>2. /\ job \in Jobs /\ job.op = "move" /\ ~InTheWay(job)
      /\ names \subseteq Names /\ names # {}
      /\ store' = [p \in Places |-> Value(p)]
      /\ promised' = DataAt(job.from, names)
  BY <1>1, SourcesAreNames DEF Rename, TransferInv, TransferTypes
<1>3. job.from \in Folders /\ job.to \in Folders
  BY <1>2, JobFields
<1>4. /\ \A n \in names : store[<<job.to, n>>] = Nothing /\ store[<<job.from, n>>] # Nothing
      /\ job.from # job.to
  <2>1. CASE job.only = All
    BY <1>2, <1>3, <2>1 DEF InTheWay, SourceNames, Held
  <2>2. CASE job.only # All
    BY <1>2, <1>3, <2>2 DEF InTheWay, SourceNames, Held
  <2>3. QED
    BY <2>1, <2>2
<1>5. \A n \in names : store'[<<job.to, n>>] = store[<<job.from, n>>]
  BY <1>2, <1>3, PlaceAt
<1>6. \A p \in Places : store[p] \in Data => \E r \in Places : store'[r] = store[p]
  <2> SUFFICES ASSUME NEW p \in Places, store[p] \in Data
               PROVE  \E r \in Places : store'[r] = store[p]
    OBVIOUS
  <2>1. PICK f \in Folders, n \in Names : p = <<f, n>>
    BY DEF Places
  <2>2. CASE f = job.from /\ n \in names
    BY <1>3, <1>5, <2>1, <2>2, PlaceAt
  <2>3. CASE f = job.to /\ n \in names
    BY <1>4, <2>1, <2>3, Kinds
  <2>4. CASE ~(f = job.from /\ n \in names) /\ ~(f = job.to /\ n \in names)
    BY <1>2, <2>1, <2>4
  <2>5. QED
    BY <2>2, <2>3, <2>4
<1>7. /\ store \in [Places -> Data \cup {Nothing, Partial}]
      /\ \A p \in Places : store[p] # Partial
  BY <1>1 DEF TransferInv, TransferTypes, PartialInHand
<1>8. \A p \in Places : Value(p) \in Data \cup {Nothing}
  BY <1>2, <1>3, <1>7, PlaceAt DEF Places
<1>9. /\ store' \in [Places -> Data \cup {Nothing, Partial}]
      /\ \A p \in Places : store'[p] # Partial
  BY <1>2, <1>8, Kinds
<1>10. NothingGone'
  BY <1>1, <1>6 DEF TransferInv, NothingGone
<1>11. \A d \in promised' : Landed(d)'
  BY <1>1, <1>2, <1>4, <1>5 DEF Landed, Stays, DataAt
<1> HIDE DEF Value
<1>12. TransferTypes'
  BY <1>1, <1>2, <1>9 DEF TransferInv, TransferTypes, End, Working, Copying
<1>13. PartialInHand'
  BY <1>1, <1>9 DEF PartialInHand, End
<1>14. CopyAccounts' /\ RemoveAccounts' /\ DeleteIsAsked' /\ Delivered'
  BY <1>1, <1>11 DEF CopyAccounts, RemoveAccounts, DeleteIsAsked, Delivered, End, Copying
<1>15. QED
  BY <1>10, <1>12, <1>13, <1>14 DEF TransferInv

\* What the scan sees is to do; what it passes over is not looked after.
LEMMA ScanKeeps ==
  ASSUME TransferInv, Scan
  PROVE  TransferInv'
<1>1. PICK seen \in SUBSET SourceNames(job) :
        /\ job.only = All \/ seen = {job.only}
        /\ todo' = seen
        /\ promised' = DataAt(job.from, seen)
        /\ unprotected' = IF job.op = "move"
                          THEN unprotected \cup DataAt(job.from, SourceNames(job) \ seen)
                          ELSE unprotected
  BY DEF Scan
<1>2. /\ wpc = "begin" /\ wpc' = "next" /\ job.op # "delete" /\ status' = "transferring"
      /\ UNCHANGED <<store, busy, cancel, job, here, dst, left, started>>
  BY DEF Scan
<1>3. /\ job \in Jobs /\ job.op \in Ops /\ job.from \in Folders
      /\ SourceNames(job) \subseteq Names /\ (job.only # All => SourceNames(job) \subseteq {job.only})
      /\ \A p \in Places : store[p] \in Data \cup {Nothing, Partial} /\ store[p] # Partial
  BY <1>2, JobFields, SourcesAreNames DEF TransferInv, TransferTypes, PartialInHand, Working
<1>4. TransferTypes'
  BY <1>1, <1>2, <1>3 DEF TransferInv, TransferTypes, Working, Copying, Ops
<1>5. PartialInHand' /\ NothingGone'
  BY <1>1, <1>2, <1>3 DEF TransferInv, PartialInHand, NothingGone
<1>6. \A d \in promised' : d \in Data
  BY <1>1, <1>3, PlaceAt DEF DataAt, SourceNames, Held
<1>7. \A d \in promised' : ToDo(d)'
  BY <1>1, <1>2 DEF DataAt, ToDo
<1>8. ASSUME job.op = "move", NEW n \in SourceNames(job)'
      PROVE  n \in todo' \/ Landed(store[<<job.from, n>>])'
  BY <1>1, <1>2, <1>8 DEF Landed, DataAt, SourceNames, Held
<1>9. CopyAccounts'
  BY <1>2, <1>6, <1>7, <1>8 DEF CopyAccounts
<1>10. RemoveAccounts' /\ DeleteIsAsked' /\ Delivered'
  BY <1>2 DEF RemoveAccounts, DeleteIsAsked, Delivered
<1>11. QED
  BY <1>4, <1>5, <1>9, <1>10 DEF TransferInv
-----------------------------------------------------------------------------
(***************************************************************************)
(* Copying.  A file that is opened takes a free place, or one whose data   *)
(* is given up for want of a free one.                                     *)
(***************************************************************************)
LEMMA OpenFileKeeps ==
  ASSUME TransferInv, OpenFile
  PROVE  TransferInv'
<1>1. PICK n \in todo :
        LET name == ResolveDestination(job.to, n) IN
         /\ here' = n
         /\ dst' = name
         /\ store' = [store EXCEPT ![<<job.to, name>>] = Partial]
         /\ unprotected' = unprotected \cup GivenUp(job.to, name)
  BY DEF OpenFile
<1> DEFINE name == ResolveDestination(job.to, n)
           q == <<job.to, name>>
<1>2. /\ wpc = "next" /\ wpc' = "copy"
      /\ UNCHANGED <<busy, cancel, status, job, todo, left, promised, started>>
  BY DEF OpenFile
<1>3. /\ job \in Jobs /\ job.from \in Folders /\ job.to \in Folders /\ n \in Names
      /\ TransferTypes
  BY <1>1, <1>2, JobFields DEF TransferInv, TransferTypes, Working
<1>4. /\ name \in Names /\ q \in Places /\ dst' = name
      /\ store[q] \in unprotected' \/ store[q] = Nothing
  BY <1>1, <1>3, FreeName, PlaceAt DEF GivenUp
<1>5. /\ store' \in [Places -> Data \cup {Nothing, Partial}]
      /\ store'[q] = Partial
      /\ \A p \in Places : p # q => store'[p] = store[p]
  BY <1>1, <1>3, <1>4, Written
<1>6. unprotected \subseteq unprotected'
  BY <1>1
<1> HIDE DEF name, q
<1>7. \A d \in Data, p \in Places : store[p] = d => d \in unprotected' \/ store'[p] = d
  BY <1>4, <1>5, Kinds
<1>8. TransferTypes'
  BY <1>1, <1>2, <1>3, <1>4, <1>5 DEF TransferTypes, Working, Copying
<1>9. PartialInHand'
  BY <1>2, <1>4, <1>5 DEF TransferInv, PartialInHand, q
<1>10. NothingGone'
  BY <1>6, <1>7 DEF TransferInv, NothingGone
<1>11. \A d \in Data : Landed(d) => Landed(d)'
  BY <1>2, <1>3, <1>6, <1>7, PlaceAt DEF Landed, Stays
<1>12. \A d \in Data : ToDo(d) => ToDo(d)' \/ Landed(d)'
  BY <1>2, <1>3, <1>7, PlaceAt DEF TransferTypes, ToDo, Landed
<1>13. \A d \in promised' : d \in Data /\ (Landed(d)' \/ ToDo(d)')
  BY <1>2, <1>11, <1>12 DEF TransferInv, CopyAccounts, Copying
<1>14. ASSUME job.op = "move", NEW m \in SourceNames(job)', store'[<<job.from, m>>] \in Data
       PROVE  m \in todo' \/ Landed(store[<<job.from, m>>])'
  <2>1. <<job.from, m>> \in Places /\ m \in Names
    BY <1>2, <1>3, PlaceAt DEF SourceNames, Held
  <2>2. store'[<<job.from, m>>] = store[<<job.from, m>>]
    BY <1>5, <1>14, <2>1, Kinds
  <2>3. m \in SourceNames(job)
    BY <1>2, <1>14, <2>1, <2>2, Kinds DEF SourceNames, Held
  <2>4. m \in todo \/ Landed(store[<<job.from, m>>])
    BY <1>2, <1>14, <2>2, <2>3 DEF TransferInv, CopyAccounts, Copying
  <2>5. PICK d \in Data : d = store[<<job.from, m>>] /\ d = store'[<<job.from, m>>]
    BY <1>14, <2>2
  <2>6. m \in todo \/ Landed(d)'
    BY <1>11, <2>4, <2>5
  <2>7. QED
    BY <1>2, <2>5, <2>6
<1>15. CopyAccounts'
  BY <1>2, <1>13, <1>14 DEF CopyAccounts
<1>16. RemoveAccounts' /\ DeleteIsAsked'
  BY <1>2 DEF RemoveAccounts, DeleteIsAsked
<1>17. Delivered'
  BY <1>2, <1>3 DEF Delivered, TransferTypes, Working
<1>18. QED
  BY <1>8, <1>9, <1>10, <1>15, <1>16, <1>17 DEF TransferInv

LEMMA FileCopiedKeeps ==
  ASSUME TransferInv, FoldersMoveElsewhere, FileCopied
  PROVE  TransferInv'
<1> DEFINE q == <<job.to, dst>>
<1>1. /\ wpc = "copy" /\ wpc' = "next" /\ todo' = todo \ {here}
      /\ UNCHANGED <<busy, cancel, status, job, left, ghostVars, started>>
      /\ store[<<job.from, here>>] \in Places
      /\ store' = [store EXCEPT ![q] = store[<<job.from, here>>]]
  BY DEF FileCopied
<1>2. /\ job \in Jobs /\ job.from \in Folders /\ job.to \in Folders
      /\ here \in todo /\ dst \in Names /\ todo \subseteq Names
      /\ job.only # All => todo \subseteq {job.only}
      /\ TransferTypes
  BY <1>1, JobFields DEF TransferInv, TransferTypes, Working
<1>3. q \in Places /\ <<job.from, here>> \in Places /\ store[q] = Partial
  BY <1>1, <1>2, PlaceAt DEF TransferInv, PartialInHand
<1>4. PICK v \in Data : v = store[<<job.from, here>>]
  BY <1>1, <1>2, <1>3, PlacesAssumption DEF TransferTypes
<1>5. Stays(dst)
  <2> SUFFICES ASSUME job.op = "move", job.from = job.to, dst = job.only
               PROVE  FALSE
    BY DEF Stays
  <2>1. job.only # All
    BY <1>2 DEF FoldersMoveElsewhere
  <2>2. here = dst
    BY <1>2, <2>1
  <2>3. QED
    BY <1>3, <1>4, <2>2, Kinds
<1>6. /\ store' \in [Places -> Data \cup {Nothing, Partial}]
      /\ store'[q] = v
      /\ \A p \in Places : p # q => store'[p] = store[p]
  BY <1>1, <1>2, <1>3, <1>4, Written
<1>7. Landed(v)'
  BY <1>1, <1>2, <1>5, <1>6 DEF Landed, Stays
<1> HIDE DEF q
<1>8. \A d \in Data, p \in Places : store[p] = d => store'[p] = d
  BY <1>3, <1>6, Kinds
<1>9. TransferTypes'
  BY <1>1, <1>2, <1>6 DEF TransferTypes, Working, Copying
<1>10. PartialInHand'
  BY <1>1, <1>4, <1>6, Kinds DEF TransferInv, PartialInHand, q
<1>11. NothingGone'
  BY <1>1, <1>8 DEF TransferInv, NothingGone, ghostVars
<1>12. \A d \in Data : Landed(d) => Landed(d)'
  BY <1>1, <1>2, <1>8, PlaceAt DEF Landed, Stays, ghostVars
<1>13. \A d \in Data : ToDo(d) => ToDo(d)' \/ Landed(d)'
  <2> SUFFICES ASSUME NEW d \in Data, NEW n \in todo, store[<<job.from, n>>] = d
               PROVE  ToDo(d)' \/ Landed(d)'
    BY DEF ToDo
  <2>1. CASE n = here
    BY <1>4, <1>7, <2>1
  <2>2. CASE n # here
    <3>1. n \in todo' /\ store'[<<job.from, n>>] = d
      BY <1>1, <1>2, <1>8, <2>2, PlaceAt
    <3>2. QED
      BY <1>1, <3>1 DEF ToDo
  <2>3. QED
    BY <2>1, <2>2
<1>14. \A d \in promised' : d \in Data /\ (Landed(d)' \/ ToDo(d)')
  BY <1>1, <1>12, <1>13 DEF TransferInv, CopyAccounts, Copying, ghostVars
<1>15. ASSUME job.op = "move", NEW m \in SourceNames(job)', store'[<<job.from, m>>] \in Data
       PROVE  m \in todo' \/ Landed(store[<<job.from, m>>])'
  <2>1. <<job.from, m>> \in Places /\ m \in Names
    BY <1>1, <1>2, PlaceAt DEF SourceNames, Held
  <2>2. CASE <<job.from, m>> = q \/ m = here
    <3>1. store'[<<job.from, m>>] = v
      BY <1>3, <1>4, <1>6, <1>8, <2>1, <2>2
    <3>2. PICK d \in Data : d = v /\ d = store'[<<job.from, m>>]
      BY <1>4, <3>1
    <3>3. Landed(d)'
      BY <1>7, <3>2
    <3>4. QED
      BY <1>1, <3>2, <3>3
  <2>3. CASE <<job.from, m>> # q /\ m # here
    <3>1. PICK d \in Data : d = store[<<job.from, m>>] /\ d = store'[<<job.from, m>>]
      BY <1>6, <1>15, <2>1, <2>3
    <3>2. m \in SourceNames(job)
      BY <1>1, <1>15, <2>1, <3>1, Kinds DEF SourceNames, Held
    <3>3. m \in todo \/ Landed(d)
      BY <1>1, <1>15, <3>1, <3>2 DEF TransferInv, CopyAccounts, Copying
    <3>4. m \in todo' \/ Landed(d)'
      BY <1>1, <1>12, <2>3, <3>3
    <3>5. QED
      BY <1>1, <3>1, <3>4
  <2>4. QED
    BY <2>2, <2>3
<1>16. CopyAccounts'
  BY <1>1, <1>14, <1>15 DEF CopyAccounts
<1>17. RemoveAccounts' /\ DeleteIsAsked'
  BY <1>1 DEF RemoveAccounts, DeleteIsAsked
<1>18. Delivered'
  BY <1>1, <1>2 DEF Delivered, TransferTypes, Working
<1>19. QED
  BY <1>9, <1>10, <1>11, <1>16, <1>17, <1>18 DEF TransferInv
-----------------------------------------------------------------------------
(***************************************************************************)
(* Removing.                                                               *)
(***************************************************************************)
LEMMA RemoveBeginKeeps ==
  ASSUME TransferInv, RemoveBegin
  PROVE  TransferInv'
<1>1. /\ \/ wpc = "begin" /\ job.op = "delete"
         \/ wpc = "next" /\ todo = {} /\ job.op = "move"
      /\ wpc' = "remove" /\ left' = SourceNames(job)
      /\ UNCHANGED <<store, busy, cancel, status, job, todo, here, dst, ghostVars, started>>
  BY DEF RemoveBegin
<1>2. /\ job \in Jobs
      /\ SourceNames(job) \subseteq Names /\ (job.only # All => SourceNames(job) \subseteq {job.only})
      /\ \A p \in Places : store[p] # Partial
  BY <1>1, SourcesAreNames DEF TransferInv, TransferTypes, PartialInHand, Working
<1>3. TransferTypes'
  BY <1>1, <1>2 DEF TransferInv, TransferTypes, Working, Copying
<1>4. PartialInHand' /\ NothingGone'
  BY <1>1, <1>2 DEF TransferInv, PartialInHand, NothingGone, ghostVars
<1>5. ASSUME job.op = "move"
      PROVE  /\ \A d \in promised : d \in Data /\ Landed(d)
             /\ \A n \in SourceNames(job) : store[<<job.from, n>>] \in Data
                                             => Landed(store[<<job.from, n>>])
  BY <1>1, <1>5 DEF TransferInv, CopyAccounts, Copying, ToDo
<1>6. ASSUME job.op # "move", NEW n \in SourceNames(job)
      PROVE  store[<<job.from, n>>] \in unprotected
  BY <1>1, <1>6 DEF TransferInv, DeleteIsAsked
<1>7. RemoveAccounts'
  BY <1>1, <1>5, <1>6 DEF RemoveAccounts, Landed, Stays, ghostVars
<1>8. CopyAccounts' /\ DeleteIsAsked'
  BY <1>1 DEF CopyAccounts, DeleteIsAsked, Copying
<1>9. Delivered'
  BY <1>1 DEF TransferInv, Delivered, TransferTypes, Working
<1>10. QED
  BY <1>3, <1>4, <1>7, <1>8, <1>9 DEF TransferInv

\* What is unlinked has landed elsewhere, or was to be deleted.
LEMMA RemoveOneKeeps ==
  ASSUME TransferInv, FoldersMoveElsewhere, RemoveOne
  PROVE  TransferInv'
<1>1. PICK n \in left, unlinked \in BOOLEAN :
        /\ left' = left \ {n}
        /\ store' = IF unlinked THEN [store EXCEPT ![<<job.from, n>>] = Nothing] ELSE store
  BY DEF RemoveOne
<1> DEFINE q == <<job.from, n>>
<1>2. /\ wpc = "remove" /\ wpc' = "remove"
      /\ UNCHANGED <<busy, cancel, status, job, todo, here, dst, ghostVars, started>>
  BY DEF RemoveOne
<1>3. /\ job \in Jobs /\ job.from \in Folders /\ job.to \in Folders /\ n \in Names
      /\ job.only # All => left \subseteq {job.only}
      /\ q \in Places /\ TransferTypes
  BY <1>1, <1>2, JobFields, PlaceAt DEF TransferInv, TransferTypes, Working
<1>4. /\ store' \in [Places -> Data \cup {Nothing, Partial}]
      /\ store'[q] = store[q] \/ store'[q] = Nothing
      /\ \A p \in Places : p # q => store'[p] = store[p]
  BY <1>1, <1>3, Written DEF TransferTypes
<1>5. /\ \A m \in Names : job.op = "move" /\ Stays(m) => <<job.to, m>> # q
      /\ \A d : job.op = "move" /\ Landed(d) => Landed(d)'
  <2>1. ASSUME NEW m \in Names, job.op = "move", Stays(m), <<job.to, m>> = q
        PROVE  FALSE
    BY <1>3, <2>1 DEF FoldersMoveElsewhere, Stays
  <2>2. \A m \in Names : <<job.to, m>> \in Places
    BY <1>3, PlaceAt
  <2> HIDE DEF q
  <2>3. ASSUME NEW d, job.op = "move", Landed(d)
        PROVE  Landed(d)'
    BY <1>2, <1>4, <2>1, <2>2, <2>3 DEF Landed, Stays, ghostVars
  <2>4. QED
    BY <2>1, <2>3
<1>6. TransferTypes'
  BY <1>1, <1>2, <1>3, <1>4 DEF TransferTypes, Working, Copying
<1>7. PartialInHand'
  BY <1>2, <1>4, Kinds DEF TransferInv, PartialInHand
<1>8. NothingGone'
  <2> SUFFICES ASSUME NEW d \in Data, d \notin unprotected
               PROVE  \E p \in Places : store'[p] = d
    BY <1>2 DEF NothingGone, ghostVars
  <2>1. PICK p \in Places : store[p] = d
    BY DEF TransferInv, NothingGone
  <2>2. CASE p # q
    BY <1>4, <2>1, <2>2
  <2>3. CASE p = q
    <3>1. Landed(d)
      BY <1>1, <1>2, <2>1, <2>3 DEF TransferInv, RemoveAccounts
    <3>2. job.op = "move"
      BY <1>1, <1>2, <2>1, <2>3 DEF TransferInv, RemoveAccounts
    <3>3. Landed(d)'
      BY <1>5, <3>1, <3>2
    <3>4. QED
      BY <1>2, <1>3, <3>3, PlaceAt DEF Landed, ghostVars
  <2>4. QED
    BY <2>2, <2>3
<1>9. ASSUME NEW m \in left', store'[<<job.from, m>>] \in Data
       PROVE  IF job.op = "move" THEN Landed(store[<<job.from, m>>])'
                                 ELSE store'[<<job.from, m>>] \in unprotected
  <2>1. m \in left /\ <<job.from, m>> \in Places /\ <<job.from, m>> # q
    BY <1>1, <1>3, PlaceAt DEF TransferTypes
  <2>2. PICK d \in Data : d = store[<<job.from, m>>] /\ d = store'[<<job.from, m>>]
    BY <1>4, <1>9, <2>1
  <2>3. IF job.op = "move" THEN Landed(d) ELSE d \in unprotected
    BY <1>2, <2>1, <2>2 DEF TransferInv, RemoveAccounts
  <2>4. IF job.op = "move" THEN Landed(d)' ELSE d \in unprotected
    BY <1>5, <2>3
  <2>5. QED
    BY <1>2, <2>2, <2>4
<1>10. RemoveAccounts'
  BY <1>2, <1>5, <1>9 DEF TransferInv, RemoveAccounts, ghostVars
<1>11. CopyAccounts' /\ DeleteIsAsked'
  BY <1>2 DEF CopyAccounts, DeleteIsAsked, Copying
<1>12. Delivered'
  BY <1>2, <1>3 DEF Delivered, TransferTypes, Working
<1>13. QED
  BY <1>6, <1>7, <1>8, <1>10, <1>11, <1>12 DEF TransferInv
-----------------------------------------------------------------------------
LEMMA StepsKeep ==
  ASSUME FoldersMoveElsewhere, TransferInv, [TransferNext]_transferVars
  PROVE  TransferInv'
<1>1. CASE \E j \in Jobs : Start(j)
  BY <1>1, StartKeeps
<1>2. CASE Cancel \/ ResetStatus \/ UNCHANGED transferVars
  BY <1>2, OtherKeeps
<1>3. CASE TransferWorker
  <2>1. CASE ScanFails \/ OpenFails
    BY <2>1, FailuresKeep
  <2>2. CASE Rename
    BY <2>2, RenameKeeps
  <2>3. CASE Scan
    BY <2>3, ScanKeeps
  <2>4. CASE OpenFile
    BY <2>4, OpenFileKeeps
  <2>5. CASE FileCopied
    BY <2>5, FileCopiedKeeps
  <2>6. CASE GiveUpFile
    BY <2>6, GiveUpFileKeeps
  <2>7. CASE AllCopied
    BY <2>7, AllCopiedKeeps
  <2>8. CASE RemoveBegin
    BY <2>8, RemoveBeginKeeps
  <2>9. CASE RemoveOne
    BY <2>9, RemoveOneKeeps
  <2>10. CASE RemoveEnd
    BY <2>10, RemoveEndKeeps
  <2>11. QED
    BY <1>3, <2>1, <2>2, <2>3, <2>4, <2>5, <2>6, <2>7, <2>8, <2>9, <2>10 DEF TransferWorker
<1>4. QED
  BY <1>1, <1>2, <1>3 DEF TransferNext

\* The invariant of the file transfer service: what each file the job in hand
\* stands for is up to (FileTransferService.cpp:482-844).
THEOREM TransferInvariant ==
  ASSUME FoldersMoveElsewhere
  PROVE  TransferSpec => []TransferInv
<1>1. TransferInit => TransferInv
  BY TransferStarts
<1>2. TransferInv /\ [TransferNext]_transferVars => TransferInv'
  BY StepsKeep
<1>3. QED
  BY <1>1, <1>2, PTL DEF TransferSpec

\* No copy, move or delete loses a file nobody asked to delete, however it is
\* cancelled, refused or cut off, unless a folder is moved onto itself
\* (executeMove, FileTransferService.cpp:753-784).
THEOREM NothingIsLost ==
  ASSUME FoldersMoveElsewhere
  PROVE  TransferSpec => []TransferLosesNothing
<1>1. TransferInv => TransferLosesNothing
  BY DEF TransferInv, NothingGone, TransferLosesNothing
<1>2. QED
  BY <1>1, TransferInvariant, PTL

\* A copy or move that reports success has delivered everything its scan saw
\* (runTransfer's end, FileTransferService.cpp:291-306).
THEOREM SuccessIsDelivery ==
  ASSUME FoldersMoveElsewhere
  PROVE  TransferSpec => []CompletedIsThere
<1>1. TransferInv => CompletedIsThere
  BY DEF TransferInv, Delivered, Landed, CompletedIsThere
<1>2. QED
  BY <1>1, TransferInvariant, PTL

\* When no job is running there is no half-written file (copySingleFile's
\* clean-up, FileTransferService.cpp:661-666).
THEOREM NoBrokenCopies ==
  ASSUME FoldersMoveElsewhere
  PROVE  TransferSpec => []NoPartialLeft
<1>1. TransferInv => NoPartialLeft
  BY DEF TransferInv, TransferTypes, PartialInHand, NoPartialLeft, Working
<1>2. QED
  BY <1>1, TransferInvariant, PTL
=============================================================================
