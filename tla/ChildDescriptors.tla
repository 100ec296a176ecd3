-------------------------- MODULE ChildDescriptors --------------------------
(***************************************************************************)
(* The descriptor table of the process macOS forks for the app: what       *)
(* number names which file, and which numbers close when it execs.  A      *)
(* system call takes and gives numbers; the calls that prepare_child and   *)
(* create_pipe make are the operators here.  Numbers 0, 1 and 2 are always *)
(* open (the standard streams) and left out.                               *)
(***************************************************************************)
EXTENDS Naturals, SequencesExt

CONSTANTS LastNumber,   \* the limit on descriptor numbers
          LastTaken     \* bound: the launcher's other files are numbered up to here

(* There is room for the nine descriptors that the launcher and then spawn *)
(* open: where there is not, the launch ends before the fork.              *)
ASSUME NumbersAssumption == /\ LastTaken \in Nat /\ LastNumber \in Nat
                            /\ 2 < LastTaken /\ LastTaken + 9 <= LastNumber

CommandFd      == 3     \* where Chromium reads its commands
ResponseFd     == 4     \* and writes what it has to say
TemporaryFdMin == 5

PipeEnds == {"commandRead", "commandWrite", "responseRead", "responseWrite"}
AppEnds  == {"commandRead", "responseWrite"}

Free(table, from) == (from .. LastNumber) \ DOMAIN table

(* The table with a number naming a file; `kept` survives an exec. *)
Named(table, number, file, kept) ==
    [n \in DOMAIN table \cup {number} |->
        IF n = number THEN [file |-> file, kept |-> kept] ELSE table[n]]

(* A descriptor opened at the lowest free number. *)
OpenAt(table, from, file, kept) == Named(table, Min(Free(table, from)), file, kept)

Closed(table, numbers) == Restrict(table, DOMAIN table \ numbers)

NumberOf(table, file) == CHOOSE n \in DOMAIN table : table[n].file = file

Opened(table, file) == OpenAt(table, 3, file, FALSE)

(* create_pipe: the read end first, both close-on-exec. *)
WithPipe(table, read, write) == Opened(Opened(table, read), write)

(* The launcher's other files, all close-on-exec as the standard library   *)
(* opens them.  One that it inherited itself may stay open in the app: no  *)
(* step closes or asks for it, and it is never one of the pipes' ends.     *)
WithPipes(taken) ==
    WithPipe(WithPipe([n \in taken |-> [file |-> "launcher", kept |-> FALSE]],
                      "commandRead", "commandWrite"),
             "responseRead", "responseWrite")

(* Command::spawn opens the null device for each standard stream and a     *)
(* pipe on which the child reports that it could not exec.                 *)
AtFork(taken) ==
    LET streams == Opened(Opened(Opened(WithPipes(taken), "null"), "null"), "null")
        table   == WithPipe(streams, "reportRead", "report")
    IN  Closed(table, {NumberOf(table, "reportRead")})

AfterExec(table) == Restrict(table, {n \in DOMAIN table : table[n].kept})

(* dup2 onto its own number leaves the descriptor as it was. *)
Dup2(table, source, target) ==
    IF source = target THEN table
    ELSE Named(table, target, table[source].file, TRUE)
=============================================================================
