---------------------------- MODULE AsarArchive ----------------------------
(***************************************************************************)
(* Reading an ASAR archive, asar.rs: a size pickle, a header pickle with   *)
(* the JSON that lists the entries, and the entries' bytes.  Every number  *)
(* comes from the file, so any sum of them may exceed its width: 32 bits   *)
(* in the pickles (below U32), 64 bits in the JSON (below U64).            *)
(*                                                                         *)
(* An archive is its length, the numbers in its pickles, the length `json` *)
(* its JSON really has, and the leaves of that JSON in order.  A name is a *)
(* sequence of path segments: one, unless it holds a separator.            *)
(***************************************************************************)
EXTENDS Naturals, Sequences, SequencesExt

CONSTANTS U32, U64, MaxHeader

ASSUME WidthAssumption == /\ U32 \in Nat /\ U64 \in Nat /\ MaxHeader \in Nat
                          /\ MaxHeader < U32
                          /\ U32 + 8 <= U64

PicklePrefix == 8

(* What read_exact_at and the JSON parser deliver, whatever the file is.   *)
IsEntry(entry) ==
    /\ entry.names \in Seq(Seq(STRING)) /\ entry.names # <<>>
    /\ entry.offset \in 0 .. U64 /\ entry.size \in 0 .. U64
    /\ {entry.link, entry.unpacked, entry.utf8, entry.intact} \subseteq BOOLEAN
    /\ entry.content \in Seq(STRING)

IsArchive(archive) ==
    /\ archive.size \in 0 .. U64 - 1
    /\ {archive.headerSize, archive.payloadSize, archive.jsonSize} \subseteq 0 .. U32 - 1
    /\ archive.entries \in Seq(Range(archive.entries))
    /\ \A i \in DOMAIN archive.entries : IsEntry(archive.entries[i])

(* A number that is missing, not a number, or too wide. *)
NoNumber == U64

SaturatingSub(a, b) == IF a < b THEN 0 ELSE a - b

CheckedAdd(a, b) == IF a + b < U64 THEN a + b ELSE NoNumber

(***************************************************************************)
(* The two pickles.                                                        *)
(***************************************************************************)
HeaderSizeValid(archive) ==
    /\ archive.headerSize >= PicklePrefix
    /\ archive.headerSize <= MaxHeader
    /\ PicklePrefix + archive.headerSize <= archive.size

DataOffset(archive) == PicklePrefix + archive.headerSize

(* Mutant: they are made in 32 bits. *)
HeaderLengthsWrap(archive) ==
    /\ (archive.payloadSize + 4) % U32 <= archive.headerSize
    /\ archive.jsonSize <= SaturatingSub(archive.payloadSize, 4)
    /\ (PicklePrefix + archive.jsonSize) % U32 <= archive.headerSize

(* header_json: the comparisons widen to 64 bits. *)
HeaderLengthsValid(archive) ==
    /\ archive.payloadSize + 4 <= archive.headerSize
    /\ archive.jsonSize <= SaturatingSub(archive.payloadSize, 4)
    /\ PicklePrefix + archive.jsonSize <= archive.headerSize

(* ReadOnlyAsarArchive::open up to the parsed header.  Taking a slice that *)
(* ends outside the pickle would panic.                                    *)
OpenHeader(archive) ==
    IF \/ archive.size < PicklePrefix
       \/ archive.sizePickle # 4
       \/ ~HeaderSizeValid(archive)
       \/ ~HeaderLengthsValid(archive)
    THEN "error"
    ELSE IF PicklePrefix + archive.jsonSize > archive.headerSize THEN "panic"
    ELSE IF archive.jsonSize # archive.json THEN "error" ELSE "opened"

(***************************************************************************)
(* flatten_files and read_packed_file.                                     *)
(***************************************************************************)
ValidName(name) == Len(name) = 1 /\ name[1] \notin {"", ".", ".."}

EntryEnd(archive, entry) == CheckedAdd(CheckedAdd(DataOffset(archive), entry.offset), entry.size)

ValidEntry(archive, entry) ==
    /\ \A i \in DOMAIN entry.names : ValidName(entry.names[i])
    /\ \/ entry.link
       \/ /\ entry.size < U64
          /\ entry.unpacked \/ (entry.offset < U64 /\ EntryEnd(archive, entry) <= archive.size)

PathOf(entry) == FlattenSeq(entry.names)

FileOf(entry) ==
    [path |-> PathOf(entry), unpacked |-> entry.unpacked, size |-> entry.size,
     offset |-> IF entry.unpacked THEN 0 ELSE entry.offset,
     bytes |-> [utf8 |-> entry.utf8, intact |-> entry.intact, content |-> entry.content]]

(* A directory whose "files" is no object fails like an entry that is not  *)
(* valid, and is left out.                                                 *)
FlattenFiles(archive) ==
    LET entries == archive.entries
    IN  [ok |-> \A i \in DOMAIN entries : ValidEntry(archive, entries[i]),
         files |-> FlattenSeq([i \in DOMAIN entries |->
                       IF entries[i].link THEN <<>> ELSE <<FileOf(entries[i])>>])]

(* The bytes read_exact_at is asked for, buffer included. *)
ReadStart(archive, file) == CheckedAdd(DataOffset(archive), file.offset)

ReadSucceeds(archive, file) ==
    /\ ReadStart(archive, file) < U64
    /\ ReadStart(archive, file) + file.size <= archive.size
    /\ file.bytes.intact
=============================================================================
