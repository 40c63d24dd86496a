------------------------------- MODULE Capture -------------------------------
(***************************************************************************)
(* processTCPDumpOutput of pkg/dnsperf/dnsperf.go: reads what tcpdump      *)
(* makes of a capture, line by line, and counts SYNs and SYN-ACKs that     *)
(* were sent again.  A line is told apart by what its flags look like; one *)
(* that has no addresses or no sequence number counts as "other".          *)
(***************************************************************************)
EXTENDS Integers, Sequences, FiniteSets

CONSTANTS
  Connections, (* pairs of addresses with ports, one for each direction    *)
  Seqs,        (* sequence numbers                                         *)
  MaxLines     (* bound: lines of a capture                                *)

ASSUME CaptureAssumption == Seqs \subseteq Nat /\ MaxLines \in Nat

\* "Flags [S]", "Flags [S.]", and "Flags [S" with something else.
FlagsOfInterest == {"SYN", "SYN-ACK", "SYN with ECN"}
Flags == FlagsOfInterest \cup {"other"}
Lines == [flags : Flags, connection : Connections, seq : Seqs]

VARIABLES
  lines,              (* the lines read; a history                         *)
  synSeqMap,          (* per connection, the last SYN's sequence number    *)
  synackSeqMap,       (* per connection, the last SYN-ACK's                *)
  duplicateSYN, duplicateSYNACK

capture == <<lines, synSeqMap, synackSeqMap, duplicateSYN, duplicateSYNACK>>

None == -1    \* no entry in a map

\* Mutant of connectionKey: clients of one server share an entry.
connectionKeyOfServer(line) == CHOOSE c \in Connections : c[2] = line.connection[2]

connectionKey(line) == line.connection

CaptureInit ==
  /\ lines = <<>>
  /\ synSeqMap = [c \in Connections |-> None]
  /\ synackSeqMap = [c \in Connections |-> None]
  /\ duplicateSYN = 0 /\ duplicateSYNACK = 0

Again(map, line) == IF map[connectionKey(line)] = line.seq THEN 1 ELSE 0

SYN(line) ==
  /\ line.flags = "SYN"
  /\ duplicateSYN' = duplicateSYN + Again(synSeqMap, line)
  /\ synSeqMap' = [synSeqMap EXCEPT ![connectionKey(line)] = line.seq]
  /\ UNCHANGED <<synackSeqMap, duplicateSYNACK>>

SYNACK(line) ==
  /\ line.flags = "SYN-ACK"
  /\ duplicateSYNACK' = duplicateSYNACK + Again(synackSeqMap, line)
  /\ synackSeqMap' = [synackSeqMap EXCEPT ![connectionKey(line)] = line.seq]
  /\ UNCHANGED <<synSeqMap, duplicateSYN>>

Skip(line) ==
  /\ line.flags \notin {"SYN", "SYN-ACK"}
  /\ UNCHANGED <<synSeqMap, synackSeqMap, duplicateSYN, duplicateSYNACK>>

Scan ==
  /\ Len(lines) < MaxLines
  /\ \E line \in Lines :
       /\ SYN(line) \/ SYNACK(line) \/ Skip(line)
       /\ lines' = Append(lines, line)

CaptureSpec == CaptureInit /\ [][Scan]_capture

-----------------------------------------------------------------------------
\* Which of the first n lines of a capture are segments with these flags on a connection.
SentBefore(ls, n, flags, c) == {j \in 1..n : ls[j].flags = flags /\ ls[j].connection = c}

\* The last of those lines has this sequence number.
LastHasSeq(ls, lineNumbers, seq) ==
  \E j \in lineNumbers : ls[j].seq = seq /\ \A h \in lineNumbers : h <= j

\* The lines that repeat the segment before them with their flags on their connection.
Repetitions(ls, flags) ==
  {i \in 1..Len(ls) :
     /\ ls[i].flags = flags
     /\ LastHasSeq(ls, SentBefore(ls, i - 1, flags, ls[i].connection), ls[i].seq)}

\* Each retransmission is counted once, whatever other connections do in between, and
\* nothing else is (processTCPDumpOutput).
RetransmissionsAreCounted ==
  /\ duplicateSYN = Cardinality(Repetitions(lines, "SYN"))
  /\ duplicateSYNACK = Cardinality(Repetitions(lines, "SYN-ACK"))

-----------------------------------------------------------------------------
(* The inductive invariant.                                                *)

\* A map knows of each connection the last segment with its flags, and of none no other.
Remembers(ls, map, flags) ==
  /\ map \in [Connections -> Seqs \cup {None}]
  /\ \A c \in Connections :
       LET segments == SentBefore(ls, Len(ls), flags, c)
       IN IF segments = {} THEN map[c] = None ELSE LastHasSeq(ls, segments, map[c])

CaptureInv ==
  /\ lines \in Seq(Lines)
  /\ Remembers(lines, synSeqMap, "SYN")
  /\ Remembers(lines, synackSeqMap, "SYN-ACK")
  /\ RetransmissionsAreCounted
=============================================================================
