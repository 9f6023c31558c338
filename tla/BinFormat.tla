----------------------------- MODULE BinFormat ------------------------------
(***************************************************************************)
(* src/binformat.rs: a file made of a header and of length-prefixed        *)
(* sections is written by one program and read by another, with a reader   *)
(* that consumes the bytes from the front.  The writer may stop anywhere,  *)
(* between the two writes of write_to or in the middle of one, and leaves  *)
(* a file that is cut.                                                     *)
(*                                                                         *)
(* The code has no writer of sections; its callers write the length and    *)
(* the payload as the documentation of read_section describes.             *)
(***************************************************************************)
EXTENDS Integers, SequencesExt

CONSTANTS
  Base,         \* how many values a byte has
  Width,        \* U64_WIDTH, the bytes of a u64
  UsizeMax,     \* the largest usize of the reader
  Magics,       \* the magic prefixes tried, by writer and by reader
  Versions,     \* the versions tried, by writer and by reader
  Payloads,     \* the payloads tried
  MaxSections   \* bound: the sections of a file

Bytes == 0..Base - 1

(* Mutant: the most significant byte first.                                *)
FromBe(s) ==
  LET value[k \in 0..Width] ==
        IF k = 0 THEN 0 ELSE s[k] + Base * value[k - 1]
  IN  value[Width]

(* u64::from_le_bytes, with the value of the k most significant bytes.     *)
FromLe(s) ==
  LET value[k \in 0..Width] ==
        IF k = 0 THEN 0 ELSE s[Width + 1 - k] + Base * value[k - 1]
  IN  value[Width]

(* The numbers that a u64 can hold are those that its bytes spell.         *)
U64 == {FromLe(s) : s \in [1..Width -> Bytes]}

ASSUME BinFormatAssumption ==
  /\ Base \in Nat \ {0, 1} /\ Width \in Nat \ {0}
  /\ UsizeMax \in Nat /\ MaxSections \in Nat
  /\ Magics \subseteq Seq(Bytes)
  /\ Versions \subseteq U64
  /\ Payloads \subseteq Seq(Bytes) /\ \A p \in Payloads : Len(p) \in U64

VARIABLES
  header,    \* the FileHeader that is written
  written,   \* the payloads written after it
  bytes,     \* the file
  expected,  \* what the reader asks for, a magic and a max_version
  pc,        \* what is done next
  rest,      \* the bytes that are not read yet
  version,   \* the version that was read
  got,       \* the payloads that were read
  why        \* the Error that ended the reading

writer == <<header, written>>
reader == <<version, got, why>>
vars == <<header, written, bytes, expected, pc, rest, version, got, why>>

(* u64::to_le_bytes, with what is left of n for the bytes from the kth on. *)
ToLe(n) ==
  LET left[k \in 1..Width] == IF k = 1 THEN n ELSE left[k - 1] \div Base
  IN  [k \in 1..Width |-> left[k] % Base]

WriteTo(h) == h.magic \o ToLe(h.version)

WriteSection(payload) == ToLe(Len(payload)) \o payload

TakeFirst(s, n) == SubSeq(s, 1, n)

(* Mutant: one byte too many is consumed.                                  *)
DropFirstPast(s, n) == SubSeq(s, n + 2, Len(s))

DropFirst(s, n) == SubSeq(s, n + 1, Len(s))

Init ==
  /\ header \in [magic : Magics, version : Versions]
  /\ written = <<>>
  /\ bytes = WriteTo(header)
  /\ expected \in [magic : Magics, max_version : Versions]
  /\ pc = "write"
  /\ rest = <<>>
  /\ version = 0
  /\ got = <<>>
  /\ why = "none"

AppendSection(payload) ==
  /\ pc = "write"
  /\ Len(written) < MaxSections
  /\ written' = Append(written, payload)
  /\ bytes' = bytes \o WriteSection(payload)
  /\ UNCHANGED <<header, expected, pc, rest, reader>>

(* The writer is done, or its sink failed and kept only the first n bytes. *)
Close(n) ==
  /\ pc = "write"
  /\ pc' = "read header"
  /\ bytes' = TakeFirst(bytes, n)
  /\ rest' = bytes'
  /\ UNCHANGED <<writer, expected, reader>>

Fails(error) ==
  /\ pc' = "failed"
  /\ why' = error
  /\ UNCHANGED <<writer, bytes, expected, rest, version, got>>

(* Mutant: data that is just long enough is refused.                       *)
LacksOne(s, n) == Len(s) <= n

(* What is left is shorter than what is needed: UnexpectedEof.             *)
Lacks(s, n) == Len(s) < n

(* FileHeader::read_from                                                   *)
ReadFrom ==
  /\ pc = "read header"
  /\ LET n == Len(expected.magic)
         after_magic == DropFirst(rest, n)
         v == FromLe(TakeFirst(after_magic, Width)) IN
       IF Lacks(rest, n) THEN Fails("magic eof")
       ELSE IF TakeFirst(rest, n) # expected.magic THEN Fails("InvalidMagic")
       ELSE IF Lacks(after_magic, Width) THEN Fails("version eof")
       ELSE IF v > expected.max_version THEN Fails("UnsupportedVersion")
       ELSE /\ pc' = "read"
            /\ version' = v
            /\ rest' = DropFirst(after_magic, Width)
            /\ UNCHANGED <<writer, bytes, expected, got, why>>

(* read_section on what is left, while something is left.                  *)
ReadSection ==
  /\ pc = "read" /\ rest # <<>>
  /\ LET after_length == DropFirst(rest, Width)
         n == FromLe(TakeFirst(rest, Width)) IN
       IF Lacks(rest, Width) THEN Fails("length eof")
       ELSE IF n > UsizeMax THEN Fails("SectionTooLarge")
       ELSE IF Lacks(after_length, n) THEN Fails("payload eof")
       ELSE /\ got' = Append(got, TakeFirst(after_length, n))
            /\ rest' = DropFirst(after_length, n)
            /\ UNCHANGED <<writer, bytes, expected, pc, version, why>>

Finish ==
  /\ pc = "read" /\ rest = <<>>
  /\ pc' = "done"
  /\ UNCHANGED <<writer, bytes, expected, rest, reader>>

Stopped == pc \in {"done", "failed"} /\ UNCHANGED vars

Next ==
  \/ \E payload \in Payloads : AppendSection(payload)
  \/ \E n \in 0..Len(bytes) : Close(n)
  \/ ReadFrom
  \/ ReadSection
  \/ Finish
  \/ Stopped

Spec == Init /\ [][Next]_vars
-----------------------------------------------------------------------------
(* A reader that expects the magic that was written gets the version and   *)
(* the sections that were written, in their order and whole, as far as the *)
(* file goes, wherever it is cut: no byte of one section ends up in        *)
(* another.                                                                *)
ReadsWhatWasWritten ==
  pc # "write" /\ expected.magic = header.magic =>
    /\ IsPrefix(got, written)
    /\ got # <<>> \/ pc = "done" => version = header.version

(* The file that a magic, a version and the payloads are written to.       *)
FileOf(magic, v, payloads) ==
  LET file[k \in 0..Len(payloads)] ==
        IF k = 0 THEN magic \o ToLe(v)
        ELSE file[k - 1] \o WriteSection(payloads[k])
  IN  file[Len(payloads)]

(* No cut goes unnoticed but one between sections, and no byte is skipped: *)
(* whatever magic a reader was told to expect, what it has read when it    *)
(* comes to the end is written with the very bytes of the file.            *)
EverythingIsAccountedFor ==
  pc = "done" => bytes = FileOf(expected.magic, version, got)

(* A file that is whole is refused only for its version or for a section   *)
(* the reader cannot hold; an UnexpectedEof means that the file was cut.   *)
ErrorHasCause ==
  pc = "failed" /\ expected.magic = header.magic =>
    CASE why = "UnsupportedVersion" -> header.version > expected.max_version
      [] why = "SectionTooLarge" ->
           \E k \in DOMAIN written : Len(written[k]) > UsizeMax
      [] OTHER -> bytes # FileOf(header.magic, header.version, written)
=============================================================================
