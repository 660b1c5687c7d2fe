---------------------------- MODULE UploadIntake ----------------------------
(***************************************************************************)
(* Upload intake, byte by byte: concurrent requests reserve a byte budget  *)
(* out of the free disk space, stream their parts into a job directory and *)
(* give the reservation back (src/internal/jobs/upload.go), and the        *)
(* handler turns the outcome into a status (src/internal/web/handlers.go). *)
(* Probing and the locks around the manifest are in module JobManager, the *)
(* windows that cut a slow body in module Deadlines.                       *)
(*                                                                         *)
(* A byte stands for a block of any size.  The request body is what the    *)
(* client and the network make of it: parts in any order, of any length,   *)
(* ended by a final boundary or cut anywhere.                              *)
(***************************************************************************)
EXTENDS Integers, Sequences, FiniteSetsExt

CONSTANTS
    Request,       \* concurrent uploads
    DisplayName,   \* what SafeFileName makes of client names: <<stem, suffix, ...>>
    DiskSize,      \* bytes of the file system
    MinFreeSpace,  \* manager.minFreeSpace
    MaxUploadSize, \* manager.maxUploadSize
    Allowance,     \* uploadFramingAllowance
    MaxFiles,      \* manager.maxFiles
    MaxFormFields, \* maxFormFields
    MaxForeign     \* bound: bytes that other writers hold at once

ASSUME IntakeAssumption ==
    /\ IsFiniteSet(Request)
    /\ \A n \in DisplayName : n \in Seq(Nat)
    /\ DiskSize \in Nat /\ MinFreeSpace \in Nat
    /\ MaxUploadSize \in Nat \ {0} /\ Allowance \in Nat
    /\ MaxFiles \in Nat \ {0} /\ MaxFormFields \in Nat /\ MaxForeign \in Nat

VARIABLES
    free,     \* what freeSpace measures
    foreign,  \* bytes taken by conversions and other writers
    uploads,  \* manager.uploads: bytes reserved
    req       \* the requests

vars == <<free, foreign, uploads, req>>

-----------------------------------------------------------------------------
(* A request *)

Errors == {"none", "noFiles", "tooManyFiles", "tooLarge", "insufficientSpace",
           "invalid", "stalled", "canceled", "io"}

\* budget, limitErr: the uploadBudget; remaining, count, fields, files: the
\* locals of receive, where files maps stored names to sizes; part, written: the
\* part being copied; total: manifest.TotalBytes; body: bytes delivered;
\* stalled: the stall report of the request body.
Fresh == [pc |-> "idle", budget |-> 0, limitErr |-> "tooLarge", remaining |-> 0,
          count |-> 0, fields |-> 0, files |-> <<>>, part |-> <<>>, written |-> 0,
          total |-> 0, body |-> 0, stalled |-> FALSE, err |-> "none", status |-> 0]

\* A variant that tries a single number.
UniqueFileNameBug(taken, name) ==
    IF name \notin taken THEN name ELSE Append(name, 2)

\* The name is free for a new file: its own, or with the smallest number
\* appended that makes it so.
UniqueFileName(taken, name) ==
    IF name \notin taken THEN name
    ELSE LET counter == CHOOSE n \in 2 .. MaxFiles + 1 :
                 /\ Append(name, n) \notin taken
                 /\ \A k \in 2 .. n - 1 : Append(name, k) \in taken
         IN  Append(name, counter)

\* uploadLimitError: how the transport's error is reported; the multipart
\* reader may lose it on the way, which makes it an invalid upload.
TransportError == {"tooLarge", "stalled", "invalid"}

\* uploadFailure, and the stall report that overrides it.
StatusOf(err) ==
    CASE err \in {"noFiles", "invalid"} -> 400
      [] err \in {"tooManyFiles", "tooLarge"} -> 413
      [] err = "insufficientSpace" -> 507
      [] err \in {"stalled", "canceled"} -> 408
      [] err = "io" -> 500
      [] OTHER -> 200

\* A variant that trusts what the multipart reader says.
StatusBug(r) == StatusOf(r.err)

Status(r) == IF r.err # "none" /\ r.stalled THEN 408 ELSE StatusOf(r.err)

-----------------------------------------------------------------------------
(* Reserving *)

\* A variant that forgets what other requests have reserved.
UsableBug == free - MinFreeSpace

Usable == free - MinFreeSpace - uploads

\* The budget is the configured maximum, or what is left of the disk; limitErr
\* names the bound an upload runs into first.
Reserve(u) ==
    /\ req[u].pc = "idle"
    /\ Usable > 0
    /\ LET budget == Min({Usable, MaxUploadSize}) IN
       /\ req' = [req EXCEPT ![u].pc = "create", ![u].budget = budget, ![u].remaining = budget,
                             ![u].limitErr = IF Usable < MaxUploadSize THEN "insufficientSpace"
                                             ELSE "tooLarge"]
       /\ uploads' = uploads + budget
    /\ UNCHANGED <<free, foreign>>

NoHeadroom(u) ==
    /\ req[u].pc = "idle"
    /\ Usable <= 0
    /\ req' = [req EXCEPT ![u].pc = "refused", ![u].err = "insufficientSpace",
                          ![u].status = StatusOf("insufficientSpace")]
    /\ UNCHANGED <<free, foreign, uploads>>

Create(u) ==
    /\ req[u].pc = "create"
    /\ \/ req' = [req EXCEPT ![u].pc = "next"]
       \/ req' = [req EXCEPT ![u].pc = "return", ![u].err = "io"]
    /\ UNCHANGED <<free, foreign, uploads>>

-----------------------------------------------------------------------------
(* Receiving *)

\* receive returns err; the part being copied is removed at once.
Rejected(u, err) ==
    /\ req' = [req EXCEPT ![u].pc = "discard", ![u].err = err, ![u].written = 0,
                          ![u].part = <<>>]
    /\ free' = free + req[u].written
    /\ UNCHANGED <<foreign, uploads>>

\* The transport fails with the error kind, which the reader may hide.
TransportFails(u, kind) ==
    /\ kind = "tooLarge" => req[u].body = MaxUploadSize + Allowance
    /\ \E err \in {kind, "invalid"} :
        /\ req' = [req EXCEPT ![u].pc = "discard", ![u].err = err, ![u].written = 0,
                              ![u].part = <<>>, ![u].stalled = (kind = "stalled")]
        /\ free' = free + req[u].written
        /\ UNCHANGED <<foreign, uploads>>

BodyBroken(u) ==
    /\ req[u].pc \in {"next", "copy"}
    /\ \E kind \in TransportError : TransportFails(u, kind)

Canceled(u) ==
    /\ req[u].pc = "next"
    /\ Rejected(u, "canceled")

\* A part without a file name is drained, within bounds.
FormField(u) ==
    /\ req[u].pc = "next"
    /\ req[u].body < MaxUploadSize + Allowance
    /\ IF req[u].fields + 1 > MaxFormFields
       THEN Rejected(u, "invalid")
       ELSE \/ /\ req' = [req EXCEPT ![u].fields = @ + 1, ![u].body = @ + 1]
               /\ UNCHANGED <<free, foreign, uploads>>
            \/ Rejected(u, "invalid")

\* The stored name is chosen among those of this upload.
FilePart(u, name) ==
    /\ req[u].pc = "next"
    /\ LET r == req[u] IN
       CASE r.count + 1 > MaxFiles -> Rejected(u, "tooManyFiles")
         [] r.remaining <= 0 -> Rejected(u, r.limitErr)
         [] OTHER ->
              /\ req' = [req EXCEPT ![u].pc = "copy", ![u].count = @ + 1, ![u].written = 0,
                             ![u].part = UniqueFileName(DOMAIN r.files, name)]
              /\ UNCHANGED <<free, foreign, uploads>>

\* The byte read at the limit is never written.
Room(r) == r.written < r.remaining

CopyByte(u) ==
    /\ req[u].pc = "copy"
    /\ req[u].body < MaxUploadSize + Allowance
    /\ Room(req[u]) /\ free > 0
    /\ req' = [req EXCEPT ![u].written = @ + 1, ![u].body = @ + 1]
    /\ free' = free - 1
    /\ UNCHANGED <<foreign, uploads>>

Overflow(u) ==
    /\ req[u].pc = "copy"
    /\ req[u].body < MaxUploadSize + Allowance
    /\ ~Room(req[u])
    /\ Rejected(u, req[u].limitErr)

DiskFull(u) ==
    /\ req[u].pc = "copy"
    /\ Room(req[u]) /\ free = 0
    /\ Rejected(u, "invalid")

\* What receive records once the part is renamed into the input directory: a
\* rename onto a taken name replaces those bytes.
Stored(r) ==
    [r EXCEPT !.pc = "next", !.remaining = @ - r.written, !.total = @ + r.written, !.written = 0,
              !.part = <<>>,
              !.files = [n \in (DOMAIN r.files) \cup {r.part} |->
                            IF n = r.part THEN r.written ELSE r.files[n]]]

EndOfPart(u) ==
    /\ req[u].pc = "copy"
    /\ \/ req[u].written = 0 /\ Rejected(u, "invalid")
       \/ Rejected(u, "io")
       \/ /\ req[u].written > 0
          /\ req' = [req EXCEPT ![u] = Stored(req[u])]
          /\ free' = IF req[u].part \in DOMAIN req[u].files
                     THEN free + req[u].files[req[u].part] ELSE free
          /\ UNCHANGED <<foreign, uploads>>

\* The final boundary.  The staging directory is emptied, or that fails.
EndOfBody(u) ==
    /\ req[u].pc = "next"
    /\ \/ req[u].count = 0 /\ Rejected(u, "noFiles")
       \/ req[u].count > 0 /\ Rejected(u, "io")
       \/ /\ req[u].count > 0
          /\ req' = [req EXCEPT ![u].pc = "save"]
          /\ UNCHANGED <<free, foreign, uploads>>

-----------------------------------------------------------------------------
(* Leaving *)

\* The manifest lists the files once they are probed.
Save(u) ==
    /\ req[u].pc = "save"
    /\ \/ req' = [req EXCEPT ![u].pc = "return"]
       \/ req' = [req EXCEPT ![u].pc = "discard", ![u].err = "io"]
    /\ UNCHANGED <<free, foreign, uploads>>

\* The sum of the sizes f[x], counted block by block: x has the blocks <<x, 1>>
\* to <<x, f[x]>>.
Blocks(f) == UNION {{x} \X (1 .. f[x]) : x \in DOMAIN f}

Total(f) == Cardinality(Blocks(f))

OnDisk(r) == Total(r.files) + r.written

\* Accept deletes the job of a rejected upload; a removal that fails is a subject of
\* module JobDirectory.
Discard(u) ==
    /\ req[u].pc = "discard"
    /\ req' = [req EXCEPT ![u].pc = "return", ![u].files = <<>>]
    /\ free' = free + OnDisk(req[u])
    /\ UNCHANGED <<foreign, uploads>>

\* The deferred release, then the handler's answer.
Return(u) ==
    /\ req[u].pc = "return"
    /\ uploads' = uploads - req[u].budget
    /\ req' = [req EXCEPT ![u].pc = "answered", ![u].status = Status(req[u])]
    /\ UNCHANGED <<free, foreign>>

\* An accepted job is deleted later, and the client may upload again.
Forget(u) ==
    /\ req[u].pc \in {"answered", "refused"}
    /\ free' = free + OnDisk(req[u])
    /\ req' = [req EXCEPT ![u] = Fresh]
    /\ UNCHANGED <<foreign, uploads>>

\* Conversions write outputs without a reservation, and give them back.
ForeignWrite ==
    /\ \/ foreign < MaxForeign /\ free > 0 /\ foreign' = foreign + 1 /\ free' = free - 1
       \/ foreign > 0 /\ foreign' = foreign - 1 /\ free' = free + 1
    /\ UNCHANGED <<uploads, req>>

Init ==
    /\ free = DiskSize
    /\ foreign = 0
    /\ uploads = 0
    /\ req = [u \in Request |-> Fresh]

Next ==
    \/ \E u \in Request :
        \/ Reserve(u) \/ NoHeadroom(u) \/ Create(u)
        \/ BodyBroken(u) \/ Canceled(u) \/ FormField(u)
        \/ \E name \in DisplayName : FilePart(u, name)
        \/ CopyByte(u) \/ Overflow(u) \/ DiskFull(u) \/ EndOfPart(u) \/ EndOfBody(u)
        \/ Save(u) \/ Discard(u) \/ Return(u) \/ Forget(u)
    \/ ForeignWrite

Spec == Init /\ [][Next]_vars

-----------------------------------------------------------------------------
(* Properties *)

TypeOK ==
    /\ free \in 0 .. DiskSize
    /\ foreign \in 0 .. MaxForeign
    /\ uploads \in 0 .. DiskSize
    /\ DOMAIN req = Request
    /\ \A u \in Request : req[u].err \in Errors

Active(u) == req[u].pc \notin {"idle", "answered", "refused"}

\* Bytes that request u may still write.
Outstanding(u) == IF req[u].pc \in {"create", "next", "copy"}
                  THEN req[u].remaining - req[u].written ELSE 0

(* Uploads alone never cross the free-space floor: what they may still     *)
(* write fits into the space above it, whatever other requests reserve or  *)
(* write meanwhile, as far as other writers do not take that space         *)
(* (upload.go:145-147, 159-163).                                           *)
UploadsSpareTheFloor ==
    LET outstanding == Total([u \in Request |-> Outstanding(u)])
    IN  outstanding > 0 => outstanding <= free + foreign - MinFreeSpace

(* A request that was turned down leaves neither bytes nor a reservation,  *)
(* and one that was accepted leaves exactly the files its manifest lists,  *)
(* none empty, none under the name of another (upload.go:100-106,          *)
(* names.go:85-106).                                                       *)
AnswerMatchesDisk ==
    /\ uploads = Total([u \in Request |-> IF Active(u) THEN req[u].budget ELSE 0])
    /\ free + foreign + Total([u \in Request |-> OnDisk(req[u])]) = DiskSize
    /\ \A u \in Request : req[u].pc = "answered" =>
        IF req[u].status = 200
        THEN /\ Cardinality(DOMAIN req[u].files) = req[u].count
             /\ \A n \in DOMAIN req[u].files : req[u].files[n] > 0
             /\ req[u].total = OnDisk(req[u]) /\ req[u].total <= MaxUploadSize
        ELSE OnDisk(req[u]) = 0

(* The status tells the reason: 413 for the size only when the body that   *)
(* was read had reached the maximum (a part at the maximum is refused      *)
(* before its end is seen, upload.go:296), 507 only when the disk allowed  *)
(* less than the maximum, 408 whenever the body was cut for lack of        *)
(* progress (handlers.go:121-128, upload.go:163-170).                      *)
StatusIsHonest ==
    \A u \in Request : LET r == req[u] IN r.pc = "answered" =>
        /\ r.status = 413 => r.err = "tooManyFiles" \/ r.body >= MaxUploadSize
        /\ r.status = 507 => r.budget < MaxUploadSize
        /\ r.stalled /\ r.err # "none" => r.status = 408

=============================================================================
