--------------------------- MODULE ControlMailbox ---------------------------
(***************************************************************************)
(* The file mailbox that carries control messages between nodes            *)
(* (src/src/transport/rdma_transport.cc).  A message is a file of the      *)
(* exchange directory named by its receiver, its sender and the sender's   *)
(* sequence number.  Posting creates the file and fills it when the stream *)
(* is closed; a reader in between sees an empty file.                      *)
(***************************************************************************)
EXTENDS Integers, FiniteSets, Sequences, Functions

CONSTANT DrainLimit    \* max_messages of DrainControlMessages, at least 1

ASSUME DrainLimitAssumption == DrainLimit \in Nat \ {0}

\* The content of a file that is created and not filled yet.
Empty == [op |-> "empty"]

-----------------------------------------------------------------------------
(* A mutant. *)

\* The files stay in the directory after they are read.
UnreadKept(files, scanned) == files

-----------------------------------------------------------------------------
\* The order of the file names: by sender, then by the decimal digits of the
\* sequence number, which is not the order of the numbers from 10 on
\* (sequence numbers below 100).
LeadingDigit(s) == IF s < 10 THEN s ELSE s \div 10

NameBefore(f, g) ==
  \/ f.from < g.from
  \/ /\ f.from = g.from
     /\ \/ LeadingDigit(f.seq) < LeadingDigit(g.seq)
        \/ LeadingDigit(f.seq) = LeadingDigit(g.seq) /\ f.seq < g.seq

SameName(f, g) == f.to = g.to /\ f.from = g.from /\ f.seq = g.seq

\* The files one DrainControlMessages reads: in name order until DrainLimit
\* messages are parsed.  An empty file parses to no message.
Scanned(mail) ==
  {f \in mail : Cardinality({g \in mail : g.body # Empty /\ NameBefore(g, f)}) < DrainLimit}

\* The place of a file among the files of a set, in name order.
Place(f, set) == 1 + Cardinality({g \in set : NameBefore(g, f)})

\* The messages it returns, in the order of the names of their files.
Parsed(scanned) ==
  LET full == {f \in scanned : f.body # Empty}
  IN [i \in 1 .. Cardinality(full) |-> (CHOOSE f \in full : Place(f, full) = i).body]

\* It removes every file it has read, parsed or not.
Unread(files, scanned) == files \ scanned

\* WriteControlMessageFile: opening the stream truncates a file of that name.
Created(files, m, seq) ==
  LET f == [to |-> m.target, from |-> m.source, seq |-> seq, body |-> Empty]
  IN {g \in files : ~SameName(f, g)} \cup {f}

\* Closing the stream: the content goes to the file, or to no file if a reader
\* has removed it in the meantime.
Filled(files, m, seq) ==
  {IF f.to = m.target /\ f.from = m.source /\ f.seq = seq THEN [f EXCEPT !.body = m] ELSE f :
     f \in files}
=============================================================================
