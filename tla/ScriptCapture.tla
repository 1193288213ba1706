--------------------------- MODULE ScriptCapture ----------------------------
(***************************************************************************)
(* The snapshot of the script files a command refers to: captureScripts in *)
(* the Pi adapter and CaptureScripts in the hook bridge.  The files belong *)
(* to others and change at any moment, also between the look at a file's   *)
(* size and its reading.  How the references are found in the command is   *)
(* not modelled: a command is the sequence of its references.              *)
(***************************************************************************)
EXTENDS Integers, Sequences, FiniteSets

CONSTANTS
    Commands,       \* what each call may run: [via : the tool, refs : its references]
    MaxFiles,       \* maxReviewScriptFiles
    MaxBytes        \* maxReviewScriptBytes

(* A reference is a path, run directly or by an interpreter, or a problem.  *)
Problem == "problem"

Kinds == {"missing", "binary", "badText", "text"}
Sizes == 0..(MaxBytes + 2)

VARIABLE capture    \* the capture that is running, if any

NotRunning == [of |-> {}, command |-> [via |-> "", refs |-> <<>>], at |-> 1,
               files |-> <<>>, skipped |-> {}, total |-> 0, status |-> "complete"]

Capturing == capture.of # {}

CaptureStarts(t, command) ==
    capture' = [NotRunning EXCEPT !.of = {t}, !.command = command]

Ref == capture.command.refs[capture.at]
Seen == {capture.command.refs[n].path : n \in 1..(capture.at - 1)}
AllRead == capture.at > Len(capture.command.refs)

(* complete: what the capture says of the file; whole: whether it has all of it. *)
Attach(path, complete, bytes, whole) ==
    [capture EXCEPT
        !.files = Append(@, [path |-> path, complete |-> complete, whole |-> whole]),
        !.total = @ + bytes,
        !.status = IF complete THEN @ ELSE "incomplete"]

Passed(c) == [c EXCEPT !.at = @ + 1]
Ended(c) == [c EXCEPT !.at = Len(c.command.refs) + 1]

Unattached(path) == Attach(path, FALSE, 0, FALSE)

(* Mutant: a file is read to the limit, not to one byte more. *)
HeldToLimit(size) == IF size > MaxBytes THEN MaxBytes ELSE size

(* What is read of a file that has `size` bytes by then.  Pi reads all of it, *)
(* which is as much too large as the bridge's one byte more than the limit.   *)
Held(size) == IF size > MaxBytes + 1 THEN MaxBytes + 1 ELSE size

TooLarge(bytes) == bytes > MaxBytes \/ capture.total + bytes > MaxBytes

(* The snapshot of one file, of which `stat` was the size when it was looked *)
(* at and `size` when it was read.                                           *)
Snapshot(kind, stat, size) ==
    IF kind = "missing" \/ stat > MaxBytes THEN Unattached(Ref.path)
    ELSE IF Ref.direct /\ kind = "binary"
    THEN [capture EXCEPT !.skipped = @ \cup {Ref.path}]
    ELSE IF capture.command.via = "shell_send" \/ kind # "text" \/ TooLarge(Held(size))
    THEN Unattached(Ref.path)
    ELSE Attach(Ref.path, TRUE, Held(size), Held(size) = size)

CaptureNext ==
    /\ Capturing /\ ~AllRead
    /\ \/ Ref.path \in Seen /\ capture' = Passed(capture)
       \/ /\ Ref.path \notin Seen /\ Ref.path = Problem
          /\ capture' = Passed(Unattached(Problem))
       \/ /\ Ref.path \notin Seen /\ Ref.path # Problem
          /\ Len(capture.files) >= MaxFiles
          /\ capture' = Ended(Unattached(Ref.path))
       \/ /\ Ref.path \notin Seen /\ Ref.path # Problem
          /\ Len(capture.files) < MaxFiles
          /\ \E kind \in Kinds, stat, size \in Sizes :
                capture' = Passed(Snapshot(kind, stat, size))

Status == IF capture.files = <<>> THEN "not_applicable" ELSE capture.status
=============================================================================
