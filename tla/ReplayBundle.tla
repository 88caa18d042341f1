---------------------------- MODULE ReplayBundle ----------------------------
(***************************************************************************)
(* Replay bundles on disk.  Writers of bundles to one directory, which may *)
(* overwrite or not, may crash at any point, and may run at the same time; *)
(* and what a reader accepts of the files they leave.  A digest stands for *)
(* the content it was made from.                                           *)
(***************************************************************************)
EXTENDS Integers, Sequences

CONSTANTS
    Writers,  \* the calls of write_replay_bundle
    Shared    \* the files whose content the writers agree on

VARIABLES
    concurrent, \* writers may overlap
    overwrite,  \* writer -> allow_overwrite
    files,      \* file -> content
    step,       \* writer -> "idle", "check", "sum", "open", "write", "done", "refused", "crashed"
    at,         \* writer -> index of the file it is at
    sums,       \* writer -> the contents it has hashed
    last        \* the writer that started last

vars == <<concurrent, overwrite, files, step, at, sums, last>>

Payload == <<"inputs", "result", "coverage", "manifest">>
FileOrder == Payload \o <<"SHA256SUMS", "metadata">>
Files == {FileOrder[i] : i \in DOMAIN FileOrder}
PayloadFiles == {Payload[i] : i \in DOMAIN Payload}

Absent == <<"absent">>
Torn == <<"torn">>  \* opened for writing, nothing written

\* the result of a writer's run: its inputs, result and coverage
Part(w, f) == IF f \in Shared THEN <<f>> ELSE <<f, w>>
Digest(w) == <<Part(w, "inputs"), Part(w, "result"), Part(w, "coverage")>>
PayloadContent(w, f) == IF f = "manifest" THEN Digest(w) ELSE Part(w, f)

Init ==
    /\ concurrent \in BOOLEAN
    /\ overwrite \in [Writers -> BOOLEAN]
    /\ files = [f \in Files |-> Absent]
    /\ step = [w \in Writers |-> "idle"]
    /\ at = [w \in Writers |-> 1]
    /\ sums = [w \in Writers |-> <<>>]
    /\ last = {}

-----------------------------------------------------------------------------
File(w) == FileOrder[at[w]]
Active(w) == step[w] \in {"check", "sum", "open", "write"}
Become(w, s) == step' = [step EXCEPT ![w] = s]

\* The refusal to touch a directory that holds any of the payload.
Start(w) ==
    /\ step[w] = "idle"
    /\ concurrent \/ \A v \in Writers : ~Active(v)
    /\ last' = {w}
    /\ Become(w, IF ~overwrite[w] /\ \E f \in PayloadFiles : files[f] # Absent
                 THEN "refused" ELSE "check")
    /\ UNCHANGED <<concurrent, overwrite, files, at, sums>>

\* Another look for each file, before it is opened.
Check(w) ==
    /\ step[w] = "check"
    /\ Become(w, IF ~overwrite[w] /\ files[File(w)] # Absent THEN "refused" ELSE "open")
    /\ UNCHANGED <<concurrent, overwrite, files, at, sums, last>>

\* The checksums are of the files on disk, read one after the other.
Sum(w) ==
    /\ step[w] = "sum"
    /\ LET f == Payload[Len(sums[w]) + 1] IN
       sums' = [sums EXCEPT ![w] = Append(@, <<f, files[f]>>)]
    /\ Become(w, IF Len(sums[w]) + 1 = Len(Payload) THEN "check" ELSE "sum")
    /\ UNCHANGED <<concurrent, overwrite, files, at, last>>

Open(w) ==
    /\ step[w] = "open"
    /\ files' = [files EXCEPT ![File(w)] = Torn]
    /\ Become(w, "write")
    /\ UNCHANGED <<concurrent, overwrite, at, sums, last>>

Content(w) ==
    CASE File(w) = "SHA256SUMS" -> sums[w]
      [] File(w) = "metadata" -> Digest(w)
      [] OTHER -> PayloadContent(w, File(w))

Write(w) ==
    /\ step[w] = "write"
    /\ files' = [files EXCEPT ![File(w)] = Content(w)]
    /\ at' = [at EXCEPT ![w] = IF @ < Len(FileOrder) THEN @ + 1 ELSE @]
    /\ Become(w, CASE at[w] = Len(Payload) -> "sum"
                   [] at[w] = Len(FileOrder) -> "done"
                   [] OTHER -> "check")
    /\ UNCHANGED <<concurrent, overwrite, sums, last>>

Crash(w) ==
    /\ Active(w) /\ Become(w, "crashed")
    /\ UNCHANGED <<concurrent, overwrite, files, at, sums, last>>

Next == \E w \in Writers :
    Start(w) \/ Check(w) \/ Sum(w) \/ Open(w) \/ Write(w) \/ Crash(w)

Spec == Init /\ [][Next]_vars

-----------------------------------------------------------------------------
\* the checksum file names every payload file with the content it has
ChecksumsMatch ==
    /\ files["SHA256SUMS"] \notin {Absent, Torn}
    /\ \A f \in PayloadFiles : \E i \in DOMAIN files["SHA256SUMS"] :
          files["SHA256SUMS"][i] = <<f, files[f]>>

PayloadDigest == <<files["inputs"], files["result"], files["coverage"]>>

\* Faulty: the checksums are enough.
AcceptsChecksums == (\A f \in Files : files[f] \notin {Absent, Torn}) /\ ChecksumsMatch

\* read_replay_bundle, of files that do not change meanwhile
Accepts ==
    /\ \A f \in Files : files[f] \notin {Absent, Torn}
    /\ ChecksumsMatch
    /\ files["manifest"] = PayloadDigest

IsOf(w) == \A f \in PayloadFiles : files[f] = PayloadContent(w, f)

\* Whatever writers did, overlapped, overwrote or broke off, and at every moment, a
\* bundle the reader accepts holds the inputs, results and coverage of one run.
AcceptedIsOneRun == Accepts => \E w \in Writers : IsOf(w)

\* Of writers that do not overlap, the one that succeeded last left a bundle that is
\* accepted and its own, whatever a crashed one before it left.
SuccessReadable ==
    ~concurrent => \A w \in last : step[w] = "done" => Accepts /\ IsOf(w) /\ files["metadata"] = Digest(w)

=============================================================================
