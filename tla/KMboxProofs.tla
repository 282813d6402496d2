----------------------------- MODULE KMboxProofs ----------------------------
(***************************************************************************)
(* Message passing, for every number of mailboxes and processes and        *)
(* whatever mailbox numbers processes pass.  Only that the rings hold what *)
(* was sent depends on what the senders do: mbox.c never asks whether a    *)
(* ring is full, so they must not send to one that is.                     *)
(***************************************************************************)
EXTENDS MailTimes, KProcProofs

USE KMboxAssumption, MboxAssumption

-----------------------------------------------------------------------------
(* One ring.                                                               *)

Box == [messages : [Cells -> 0 .. MaxSent], head : Cells, tail : Cells, size : Nat]

(* The cell k places after the head.                                       *)
CellAt(box, k) == (box.head + k) % MBOX_SIZE

(* What the cells of a ring hold, from the head on, is exactly list, and   *)
(* tail is the next cell to write.  Without the second part a message      *)
(* could be put anywhere.                                                  *)
Keeps(box, cells, list) ==
  /\ Len(list) = box.size
  /\ box.size <= MBOX_SIZE
  /\ box.tail = CellAt(box, box.size)
  /\ \A k \in 1 .. box.size : cells[CellAt(box, k - 1)] = list[k]

(* The ring holds exactly the messages of mail.                            *)
Holds(box, mail) == Keeps(box, box.messages, mail)

(* The remainder in CellAt is the wrap test of mbox.c, which no offset     *)
(* passes twice, and no two offsets below MBOX_SIZE share a cell.          *)
LEMMA CellAtFacts ==
  ASSUME NEW box \in Box
  PROVE  /\ \A k \in 0 .. MBOX_SIZE :
              CellAt(box, k) = IF box.head + k < MBOX_SIZE THEN box.head + k
                               ELSE box.head + k - MBOX_SIZE
         /\ \A k \in 0 .. MBOX_SIZE : CellAt(box, k) \in Cells
         /\ \A j, k \in Cells : CellAt(box, j) = CellAt(box, k) => j = k
         /\ CellAt(box, 0) = box.head
         /\ \A k \in Cells : CellAt(box, k + 1) = NextCell(CellAt(box, k))
<1>1. box.head \in Cells /\ MBOX_SIZE \in Nat /\ MBOX_SIZE > 0
  BY DEF Box
<1>2. ASSUME NEW k \in 0 .. MBOX_SIZE
      PROVE  CellAt(box, k) = IF box.head + k < MBOX_SIZE THEN box.head + k
                              ELSE box.head + k - MBOX_SIZE
  BY <1>1 DEF CellAt, Cells
<1>3. QED
  BY <1>1, <1>2 DEF Cells, NextCell

LEMMA BoxTypes ==
  ASSUME NEW box \in Box
  PROVE  /\ \A msg \in 1 .. MaxSent : /\ mbox_queue_in(box, msg) \in Box
                                      /\ mbox_queue_in(box, msg).size = box.size + 1
         /\ box.size > 0 => /\ mbox_queue_out(box) \in Box
                            /\ mbox_queue_out(box).size = box.size - 1
         /\ mbox_front(box) \in 0 .. MaxSent
<1>1. /\ box.messages \in [Cells -> 0 .. MaxSent]
      /\ box.head \in Cells /\ box.tail \in Cells /\ box.size \in Nat
  BY DEF Box
<1>2. \A c \in Cells : NextCell(c) \in Cells
  BY DEF NextCell, Cells
<1>3. ASSUME NEW msg \in 1 .. MaxSent
      PROVE  mbox_queue_in(box, msg) \in Box /\ mbox_queue_in(box, msg).size = box.size + 1
  <2>1. mbox_queue_in(box, msg) =
          [box EXCEPT !.messages = [box.messages EXCEPT ![box.tail] = msg],
                      !.tail = NextCell(box.tail), !.size = box.size + 1]
    BY DEF mbox_queue_in, Box
  <2>2. [box.messages EXCEPT ![box.tail] = msg] \in [Cells -> 0 .. MaxSent]
    BY <1>1
  <2>3. QED
    <3>1. box.size + 1 \in Nat /\ NextCell(box.tail) \in Cells
      BY <1>1, <1>2
    <3>2. QED
      BY <2>1, <2>2, <3>1 DEF Box
<1>4. ASSUME box.size > 0
      PROVE  mbox_queue_out(box) \in Box /\ mbox_queue_out(box).size = box.size - 1
  <2>1. mbox_queue_out(box) =
          [box EXCEPT !.messages = [box.messages EXCEPT ![box.head] = NoMessage],
                      !.head = NextCell(box.head), !.size = box.size - 1]
    BY DEF mbox_queue_out, Box
  <2>2. [box.messages EXCEPT ![box.head] = NoMessage] \in [Cells -> 0 .. MaxSent]
    BY <1>1
  <2>3. box.size - 1 \in Nat
    BY <1>1, <1>4
  <2>4. QED
    BY <1>1, <1>2, <2>1, <2>2, <2>3 DEF Box
<1>5. mbox_front(box) \in 0 .. MaxSent
  BY <1>1 DEF mbox_front
<1>6. QED
  BY <1>3, <1>4, <1>5

(* mbox_queue_in on a ring with room appends, whatever the cells are made  *)
(* to hold.                                                                *)
LEMMA PutKeeps ==
  ASSUME NEW box \in Box, NEW V, NEW cells \in [Cells -> V], NEW list \in Seq(V),
         NEW msg, NEW x \in V, Keeps(box, cells, list), box.size < MBOX_SIZE
  PROVE  Keeps(mbox_queue_in(box, msg), [cells EXCEPT ![box.tail] = x], Append(list, x))
<1> DEFINE new == mbox_queue_in(box, msg)
           put == [cells EXCEPT ![box.tail] = x]
           size == box.size
<1>1. /\ new.head = box.head
      /\ new.tail = NextCell(box.tail)
      /\ new.size = size + 1
      /\ box.tail \in Cells
      /\ size \in Nat /\ size < MBOX_SIZE
  BY DEF mbox_queue_in, Box
<1>2. \A k : CellAt(new, k) = CellAt(box, k)
  BY <1>1 DEF CellAt
<1>3. /\ Len(list) = size
      /\ box.tail = CellAt(box, size)
      /\ \A k \in 1 .. size : cells[CellAt(box, k - 1)] = list[k]
  BY DEF Keeps
<1>4. /\ Len(Append(list, x)) = size + 1
      /\ \A k \in 1 .. size : Append(list, x)[k] = list[k]
      /\ Append(list, x)[size + 1] = x
  BY <1>3, AppendProperties
<1> HIDE DEF new, size
<1>5. new.tail = CellAt(new, new.size)
  <2>1. size \in Cells
    BY <1>1 DEF Cells
  <2>2. NextCell(CellAt(box, size)) = CellAt(box, size + 1)
    BY <2>1, CellAtFacts
  <2> QED BY <2>2, <1>1, <1>2, <1>3
<1>6. ASSUME NEW k \in 1 .. size + 1
      PROVE  put[CellAt(new, k - 1)] = Append(list, x)[k]
  <2>1. CASE k = size + 1
    BY <2>1, <1>1, <1>2, <1>3, <1>4
  <2>2. CASE k # size + 1
    <3>1. k \in 1 .. size /\ k - 1 \in Cells /\ size \in Cells
      BY <2>2, <1>1 DEF Cells
    <3>2. CellAt(box, k - 1) # box.tail /\ CellAt(box, k - 1) \in Cells
      <4>1. CellAt(box, k - 1) # CellAt(box, size)
        BY <1>1, <3>1, CellAtFacts
      <4>2. k - 1 \in 0 .. MBOX_SIZE
        BY <3>1 DEF Cells
      <4> QED BY <1>3, <4>1, <4>2, CellAtFacts
    <3> QED BY <1>1, <1>2, <1>3, <1>4, <3>1, <3>2
  <2> QED BY <2>1, <2>2
<1> QED
  BY <1>1, <1>4, <1>5, <1>6 DEF Keeps, new, size

(* mbox_queue_out on a ring that is not empty drops the oldest, which the  *)
(* cell at head held.                                                      *)
LEMMA GetKeeps ==
  ASSUME NEW box \in Box, NEW V, NEW cells \in [Cells -> V], NEW list \in Seq(V),
         NEW x \in V, Keeps(box, cells, list), box.size > 0
  PROVE  /\ list # <<>>
         /\ cells[box.head] = Head(list)
         /\ Keeps(mbox_queue_out(box), [cells EXCEPT ![box.head] = x], Tail(list))
<1> DEFINE new == mbox_queue_out(box)
           left == [cells EXCEPT ![box.head] = x]
           size == box.size
<1>0. size \in Nat /\ size > 0 /\ size <= MBOX_SIZE
  BY DEF Box, Keeps
<1>1. /\ new.head = NextCell(box.head)
      /\ new.tail = box.tail
      /\ new.size = size - 1
      /\ box.head \in Cells
  BY DEF mbox_queue_out, Box
<1>2. /\ Len(list) = size
      /\ box.tail = CellAt(box, size)
      /\ \A k \in 1 .. size : cells[CellAt(box, k - 1)] = list[k]
  BY DEF Keeps
<1>3. /\ list # <<>>
      /\ Len(Tail(list)) = size - 1
      /\ \A k \in 1 .. size - 1 : Tail(list)[k] = list[k + 1]
      /\ Head(list) = list[1]
  BY <1>0, <1>2, HeadTailProperties
<1> HIDE DEF new, size
<1>4. \A k \in 0 .. size - 1 : CellAt(new, k) = CellAt(box, k + 1)
  <2> SUFFICES ASSUME NEW k \in 0 .. size - 1
               PROVE  CellAt(new, k) = CellAt(box, k + 1)
    OBVIOUS
  <2>1. IF box.head + 1 < MBOX_SIZE THEN new.head = box.head + 1
                                     ELSE new.head = 0 /\ box.head + 1 = MBOX_SIZE
    BY <1>1 DEF NextCell, Cells
  <2>2. /\ k \in 0 .. MBOX_SIZE /\ k + 1 \in 0 .. MBOX_SIZE
        /\ k < MBOX_SIZE /\ box.head < MBOX_SIZE /\ box.head \in Nat
    BY <1>0, <1>1 DEF Cells
  <2>3. CellAt(new, k) = IF new.head + k < MBOX_SIZE THEN new.head + k
                         ELSE new.head + k - MBOX_SIZE
    BY <1>0, <2>2, BoxTypes, CellAtFacts DEF new, size
  <2>4. CellAt(box, k + 1) = IF box.head + (k + 1) < MBOX_SIZE THEN box.head + (k + 1)
                             ELSE box.head + (k + 1) - MBOX_SIZE
    BY <2>2, CellAtFacts
  <2>5. CASE box.head + 1 < MBOX_SIZE
    BY <2>1, <2>2, <2>3, <2>4, <2>5
  <2>6. CASE ~(box.head + 1 < MBOX_SIZE)
    BY <2>1, <2>2, <2>3, <2>4, <2>6
  <2> QED BY <2>5, <2>6
<1>5. new.tail = CellAt(new, new.size)
  <2>1. size - 1 \in 0 .. size - 1 /\ (size - 1) + 1 = size
    BY <1>0
  <2>2. CellAt(new, size - 1) = CellAt(box, (size - 1) + 1)
    BY <1>4, <2>1
  <2> QED BY <2>1, <2>2, <1>1, <1>2
<1>6. ASSUME NEW k \in 1 .. size - 1
      PROVE  left[CellAt(new, k - 1)] = Tail(list)[k]
  <2>1. /\ k \in Cells /\ 0 \in Cells /\ k # 0 /\ k \in 0 .. MBOX_SIZE
        /\ k - 1 \in 0 .. size - 1 /\ (k - 1) + 1 = k
        /\ k + 1 \in 1 .. size /\ (k + 1) - 1 = k
    BY <1>0 DEF Cells
  <2>2. CellAt(new, k - 1) = CellAt(box, k)
    <3>1. CellAt(new, k - 1) = CellAt(box, (k - 1) + 1)
      BY <1>4, <2>1
    <3> QED BY <2>1, <3>1
  <2>3. CellAt(box, k) # box.head /\ CellAt(box, k) \in Cells
    BY <2>1, CellAtFacts
  <2>4. cells[CellAt(box, k)] = list[k + 1]
    BY <1>2, <2>1
  <2> QED BY <1>1, <1>3, <2>2, <2>3, <2>4
<1>7. cells[box.head] = Head(list)
  <2>1. 1 \in 1 .. size /\ 1 - 1 = 0
    BY <1>0
  <2>2. cells[CellAt(box, 1 - 1)] = list[1]
    BY <1>2, <2>1
  <2>3. CellAt(box, 1 - 1) = box.head
    BY <2>1, CellAtFacts
  <2> QED BY <1>3, <2>2, <2>3
<1> QED
  BY <1>0, <1>1, <1>3, <1>5, <1>6, <1>7 DEF Keeps, new, size

(* What MboxContents reads from the head on is the list.                   *)
LEMMA ReadKeeps ==
  ASSUME NEW box \in Box, NEW V, NEW cells, NEW list \in Seq(V),
         Keeps(box, cells, list)
  PROVE  MboxContents([box EXCEPT !.messages = cells]) = list
<1> DEFINE read == [box EXCEPT !.messages = cells]
           size == box.size
<1>1. /\ read.size = size /\ read.head = box.head /\ read.messages = cells
      /\ size \in Nat /\ box.head \in Int
  BY DEF Box, Cells
<1>2. Len(list) = size /\ \A k \in 1 .. size : cells[CellAt(box, k - 1)] = list[k]
  BY DEF Keeps
<1> HIDE DEF read, size
<1>3. ASSUME NEW k \in 1 .. size
      PROVE  cells[(box.head + k - 1) % MBOX_SIZE] = list[k]
  <2>1. box.head + k - 1 = box.head + (k - 1)
    BY <1>1
  <2> QED BY <1>2, <2>1 DEF CellAt
<1>4. MboxContents(read) = [k \in 1 .. size |-> list[k]]
  BY <1>1, <1>3 DEF MboxContents
<1>5. list = [k \in 1 .. size |-> list[k]]
  BY <1>2, LenProperties
<1> QED BY <1>4, <1>5 DEF read

(* The same for the messages themselves.                                   *)
LEMMA PutHolds ==
  ASSUME NEW box \in Box, NEW mail \in Seq(1 .. MaxSent), NEW msg \in 1 .. MaxSent,
         Holds(box, mail), box.size < MBOX_SIZE
  PROVE  Holds(mbox_queue_in(box, msg), Append(mail, msg))
<1>1. /\ mail \in Seq(0 .. MaxSent) /\ msg \in 0 .. MaxSent
      /\ box.messages \in [Cells -> 0 .. MaxSent]
  BY DEF Box
<1>2. mbox_queue_in(box, msg).messages = [box.messages EXCEPT ![box.tail] = msg]
  BY DEF mbox_queue_in, Box
<1> QED BY <1>1, <1>2, PutKeeps DEF Holds

LEMMA GetHolds ==
  ASSUME NEW box \in Box, NEW mail \in Seq(1 .. MaxSent),
         Holds(box, mail), box.size > 0
  PROVE  /\ mail # <<>>
         /\ mbox_front(box) = Head(mail)
         /\ Holds(mbox_queue_out(box), Tail(mail))
<1>1. /\ mail \in Seq(0 .. MaxSent) /\ NoMessage \in 0 .. MaxSent
      /\ box.messages \in [Cells -> 0 .. MaxSent]
  BY DEF Box
<1>2. mbox_queue_out(box).messages = [box.messages EXCEPT ![box.head] = NoMessage]
  BY DEF mbox_queue_out, Box
<1>3. Keeps(box, box.messages, mail)
  BY DEF Holds
<1>4. /\ mail # <<>>
      /\ box.messages[box.head] = Head(mail)
      /\ Keeps(mbox_queue_out(box), [box.messages EXCEPT ![box.head] = NoMessage], Tail(mail))
  BY <1>1, <1>3, GetKeeps
<1> QED BY <1>2, <1>4 DEF Holds, mbox_front

-----------------------------------------------------------------------------
(* The inductive invariant.                                                *)

(* The counts that keep the rings and the lists of messages in step.       *)
MailCounted ==
  \A b \in Mboxes : mailboxes[b].size <= sent[b] /\ Len(pending[b]) = mailboxes[b].size

(* Wait queues list ids that have been given out, each in one place and    *)
(* once.  One that a live process has is that of a process that waits.     *)
ReceiversKnown ==
  /\ \A b \in Mboxes : IsInjective(recv_queue[b])
  /\ \A b, c \in Mboxes : b # c => Range(recv_queue[b]) \cap Range(recv_queue[c]) = {}
  /\ \A b \in Mboxes : \A p \in Range(recv_queue[b]) : 0 < p /\ p < next_pid
  /\ \A b \in Mboxes : \A i \in Live : pid[i] \in Range(recv_queue[b]) => i \in Waiting

(* What senders that leave full mailboxes alone keep true as well.         *)
RingsExact == \A b \in Mboxes : Holds(mailboxes[b], pending[b])

MailInv ==
  /\ KernelInv /\ IdleAlone
  /\ MboxTableOK
  /\ MailCounted
  /\ NoIdleMail
  /\ ReceiversKnown
  /\ RoomOnly => RingsExact

(* The processes that wait and stand in no wait queue of a mailbox.        *)
(* Without mutexes there should be none.                                   *)
Unheard == {i \in Waiting : \A b \in Mboxes : pid[i] \notin Range(recv_queue[b])}

MboxInv == MailInv /\ Unheard = {} /\ fault \in MboxFaults

(* What a mailbox call keeps and promises.  Those that wait for something  *)
(* else are none of its business.                                          *)
MailKeeps ==
  /\ MailInv'
  /\ fault' \in {fault, WaitQueueFull}
  /\ UNCHANGED <<pid, next_pid>> /\ Live' = Live
  /\ Unheard' = Unheard

-----------------------------------------------------------------------------
(* Consequences of the invariant that the steps rest on.                   *)

LEMMA MailTypes ==
  ASSUME MailInv, NEW b \in Mboxes
  PROVE  /\ mailboxes[b] \in Box
         /\ mailboxes[b].size \in Nat /\ mailboxes[b].size <= sent[b]
         /\ sent[b] \in 0 .. MaxSent
         /\ pending[b] \in Seq(1 .. MaxSent) /\ Len(pending[b]) = mailboxes[b].size
         /\ recv_queue[b] \in Seq(Nat) /\ IsInjective(recv_queue[b])
<1>1. mailboxes[b] \in [messages : [Cells -> 0 .. MaxSent], head : Cells,
                        tail : Cells, size : 0 .. MaxSent]
  BY DEF MailInv, MboxTableOK
<1>2. mailboxes[b] \in Box /\ mailboxes[b].size \in Nat
  BY <1>1 DEF Box
<1>3. QED
  BY <1>2 DEF MailInv, MboxTableOK, MailCounted, ReceiversKnown

(* A step that changes one ring and keeps it in step with its messages.    *)
LEMMA RingStep ==
  ASSUME MailInv, NEW b \in Mboxes,
         NEW box \in Box, NEW mail \in Seq(1 .. MaxSent), NEW n \in 0 .. MaxSent,
         mailboxes' = [mailboxes EXCEPT ![b] = box],
         pending' = [pending EXCEPT ![b] = mail],
         sent' = [sent EXCEPT ![b] = n],
         box.size <= n, Len(mail) = box.size, RoomOnly => Holds(box, mail),
         recv_queue' \in [Mboxes -> Seq(Nat)], inbox' \in [Entries -> 0 .. MaxSent],
         strayed' \subseteq Mboxes
  PROVE  /\ MboxTableOK' /\ MailCounted' /\ (RoomOnly => RingsExact')
         /\ mailboxes'[b] = box
         /\ \A c \in Mboxes \ {b} : mailboxes'[c] = mailboxes[c]
<1> DEFINE Boxes == [messages : [Cells -> 0 .. MaxSent], head : Cells,
                     tail : Cells, size : 0 .. MaxSent]
<1>1. box \in Boxes
  <2>1. box.size \in 0 .. MaxSent
    BY DEF Box
  <2>2. QED
    BY <2>1 DEF Box
<1>2. mailboxes \in [Mboxes -> Boxes]
  BY DEF MailInv, MboxTableOK
<1> HIDE DEF Boxes
<1>3. mailboxes' \in [Mboxes -> Boxes]
  BY <1>1, <1>2
<1>4. pending' \in [Mboxes -> Seq(1 .. MaxSent)] /\ sent' \in [Mboxes -> 0 .. MaxSent]
  BY DEF MailInv, MboxTableOK
<1>5. MboxTableOK'
  BY <1>3, <1>4 DEF MboxTableOK, Boxes
<1>6. /\ mailboxes'[b] = box /\ pending'[b] = mail /\ sent'[b] = n
      /\ \A c \in Mboxes \ {b} : /\ mailboxes'[c] = mailboxes[c]
                                 /\ pending'[c] = pending[c]
                                 /\ sent'[c] = sent[c]
  BY <1>2 DEF MailInv, MboxTableOK
<1>7. MailCounted'
  BY <1>6 DEF MailInv, MailCounted
<1>8. RoomOnly => RingsExact'
  BY <1>6 DEF MailInv, RingsExact
<1>9. QED
  BY <1>5, <1>6, <1>7, <1>8

(* The process that makes a call stands in no wait queue.                  *)
LEMMA CallerNotListed ==
  ASSUME MailInv, SystemCall
  PROVE  /\ current \in Live \ {0} /\ current \in Entries /\ current \notin Waiting
         /\ 0 < pid[current] /\ pid[current] < next_pid /\ pid[current] \in Nat
         /\ pid[current] \notin Range(run_queue)
         /\ \A b \in Mboxes : pid[current] \notin Range(recv_queue[b])
         /\ \A i \in Live : pid[i] = pid[current] => i = current
         /\ kpc = "user"
<1>1. /\ current \in Live \ {0} /\ current \in Entries /\ current \notin Waiting
      /\ pid[current] \notin Range(run_queue)
      /\ kpc = "user"
  BY CallerFacts DEF MailInv, Live, Waiting, SystemCall
<1>2. /\ 0 < pid[current] /\ pid[current] < next_pid /\ pid[current] \in Nat
      /\ \A i \in Live : pid[i] = pid[current] => i = current
  BY <1>1 DEF MailInv, KernelInv, TableTypeOK, TableInv, PidsUnique
<1>3. \A b \in Mboxes : pid[current] \notin Range(recv_queue[b])
  BY <1>1 DEF MailInv, ReceiversKnown
<1>4. QED
  BY <1>1, <1>2, <1>3

(* The first receiver in a wait queue, if it still lives, waits; there is  *)
(* no other process with its id.                                           *)
LEMMA FirstReceiver ==
  ASSUME MailInv, NEW b \in Mboxes, recv_queue[b] # <<>>
  PROVE  LET p == Head(recv_queue[b]) IN
         /\ \A i \in EntriesOf(p) : i \in Waiting /\ pid[i] = p
         /\ EntriesOf(p) = {} => \A i \in Live : pid[i] # p
         /\ \A i, j \in Live : pid[i] = pid[j] => i = j
         /\ Tail(recv_queue[b]) \in Seq(Nat)
         /\ IsInjective(Tail(recv_queue[b]))
         /\ Range(Tail(recv_queue[b])) = Range(recv_queue[b]) \ {p}
         /\ p \in Range(recv_queue[b])
<1> DEFINE q == recv_queue[b]
<1>1. q \in Seq(Nat) /\ IsInjective(q) /\ q # <<>>
  BY MailTypes
<1> HIDE DEF q
<1>2. /\ Head(q) \in Range(q)
      /\ Tail(q) \in Seq(Nat)
      /\ IsInjective(Tail(q))
      /\ Range(Tail(q)) = Range(q) \ {Head(q)}
  BY <1>1, TailFacts
<1>3. 0 < Head(q)
  BY <1>2 DEF MailInv, ReceiversKnown, q
<1>4. ASSUME NEW i \in EntriesOf(Head(q))
      PROVE  i \in Waiting /\ pid[i] = Head(q)
  <2>1. i \in Entries /\ pid[i] = Head(q)
    BY DEF EntriesOf, IsEntryOf
  <2>2. i \in Live
    BY <1>3, <2>1 DEF MailInv, KernelInv, TableInv, ClearedHaveNoPid
  <2>3. QED
    BY <1>2, <2>1, <2>2 DEF MailInv, ReceiversKnown, q
<1>5. ASSUME NEW i \in Live, pid[i] = Head(q)
      PROVE  EntriesOf(Head(q)) # {}
  BY <1>5, Lookup DEF MailInv, KernelInv, TableInv
<1>6. \A i, j \in Live : pid[i] = pid[j] => i = j
  BY DEF MailInv, KernelInv, TableInv, PidsUnique
<1>7. QED
  BY <1>2, <1>4, <1>5, <1>6 DEF q

-----------------------------------------------------------------------------
(* One lemma per action: it preserves the invariant.                       *)

(* The steps of module KProc neither end a wait nor reuse the id of a      *)
(* receiver, though they may end the life of one that waits.               *)
LEMMA MailProcStep ==
  ASSUME MailInv, [ProcNext]_procVars, UNCHANGED mboxVars
  PROVE  /\ MailInv'
         /\ Unheard' = Unheard \cap Waiting'
<1> USE DEF mboxVars
<1>1. KernelInv /\ IdleAlone
  BY DEF MailInv
<1>2. KernelInv' /\ IdleAlone'
  BY <1>1, NextInv, StepProperties
<1>3. /\ \/ Waiting' = Waiting
         \/ Waiting' = Waiting \ {current} /\ Live' = Live \ {current}
      /\ \A i \in Waiting' : pid'[i] = pid[i]
  BY <1>1, WaitersStay
<1>4. /\ next_pid' >= next_pid
      /\ \A i \in Live' : \/ i \in Live /\ pid'[i] = pid[i]
                          \/ pid'[i] = next_pid /\ next_pid' > next_pid
  BY <1>1, IdsStay
<1>5. MboxTableOK' /\ MailCounted' /\ NoIdleMail' /\ (RoomOnly => RingsExact')
  BY DEF MailInv, MboxTableOK, MailCounted, NoIdleMail, RingsExact
<1>6. next_pid \in Nat /\ next_pid' \in Nat
  BY <1>1, <1>2 DEF KernelInv, TableTypeOK
<1>7. ASSUME NEW b \in Mboxes, NEW p \in Range(recv_queue[b])
      PROVE  /\ 0 < p /\ p < next_pid'
             /\ \A i \in Live' : pid'[i] = p => i \in Waiting'
  <2>1. p \in Nat /\ 0 < p /\ p < next_pid
    <3>1. recv_queue[b] \in Seq(Nat)
      BY MailTypes
    <3>2. p \in Nat
      BY <3>1, RangeFacts
    <3>3. QED
      BY <3>2 DEF MailInv, ReceiversKnown
  <2>2. \A i \in Live' : pid'[i] = p => i \in Live /\ pid[i] = p
    BY <1>4, <1>6, <2>1
  <2>3. \A i \in Live : pid[i] = p => i \in Waiting
    BY DEF MailInv, ReceiversKnown
  <2>4. QED
    BY <1>3, <1>4, <1>6, <2>1, <2>2, <2>3
<1>8. ReceiversKnown'
  BY <1>7 DEF MailInv, ReceiversKnown
<1>9. Unheard' = Unheard \cap Waiting'
  BY <1>3 DEF Unheard
<1>10. QED
  BY <1>2, <1>5, <1>8, <1>9 DEF MailInv

(* A step that leaves scheduler, table and wait queues alone.              *)
LEMMA ListsAlone ==
  ASSUME MailInv, SystemCall, kpc' \in {"keyboard", "halted"},
         UNCHANGED <<timeVars, tableVars, schedVars, recv_queue>>
  PROVE  /\ KernelInv' /\ IdleAlone' /\ ReceiversKnown'
         /\ UNCHANGED <<pid, next_pid>>
         /\ Live' = Live /\ Unheard' = Unheard
<1>1. KernelInv' /\ IdleAlone' /\ Live' = Live /\ Waiting' = Waiting
  BY ReturnStep DEF MailInv, SystemCall
<1>2. UNCHANGED <<pid, next_pid>>
  BY DEF tableVars
<1>3. QED
  BY <1>1, <1>2 DEF MailInv, ReceiversKnown, Unheard

(* A mailbox number out of range.                                          *)
LEMMA RefusedMail ==
  ASSUME MailInv, SystemCall, NEW b, Refused(b)
  PROVE  MailKeeps
<1>1. kpc' = "keyboard" /\ UNCHANGED <<timeVars, tableVars, schedVars, fault, mboxVars>>
  BY DEF Refused
<1>2. /\ KernelInv' /\ IdleAlone' /\ ReceiversKnown'
      /\ UNCHANGED <<pid, next_pid>>
      /\ Live' = Live /\ Unheard' = Unheard
  BY <1>1, ListsAlone DEF mboxVars
<1>3. MboxTableOK' /\ MailCounted' /\ NoIdleMail' /\ (RoomOnly => RingsExact')
  BY <1>1 DEF MailInv, MboxTableOK, MailCounted, NoIdleMail, RingsExact, mboxVars
<1>4. QED
  BY <1>1, <1>2, <1>3 DEF MailInv, MailKeeps

(* msg_send while nobody waits: the message stays in the mailbox.          *)
LEMMA DepositStep ==
  ASSUME MailInv, SystemCall, NEW b \in Mboxes, sent[b] < MaxSent,
         RoomOnly => mailboxes[b].size < MBOX_SIZE,
         sent' = [sent EXCEPT ![b] = @ + 1], Deposit(b, sent[b] + 1)
  PROVE  MailKeeps
<1> DEFINE msg == sent[b] + 1
           box == mbox_queue_in(mailboxes[b], msg)
           mail == Append(pending[b], msg)
<1>1. /\ recv_queue[b] = <<>>
      /\ mailboxes' = [mailboxes EXCEPT ![b] = box]
      /\ pending' = [pending EXCEPT ![b] = mail]
      /\ kpc' = "keyboard"
      /\ UNCHANGED <<timeVars, tableVars, schedVars, fault, recv_queue, inbox, strayed>>
  BY DEF Deposit
<1>2. /\ mailboxes[b] \in Box
      /\ mailboxes[b].size \in Nat /\ mailboxes[b].size <= sent[b]
      /\ sent[b] \in Nat
      /\ pending[b] \in Seq(1 .. MaxSent) /\ Len(pending[b]) = mailboxes[b].size
  BY MailTypes
<1>3. msg \in 1 .. MaxSent /\ msg \in 0 .. MaxSent
  BY <1>2
<1>4. box \in Box /\ box.size = mailboxes[b].size + 1
  BY <1>2, <1>3, BoxTypes
<1>5. mail \in Seq(1 .. MaxSent) /\ Len(mail) = Len(pending[b]) + 1
  BY <1>2, <1>3, AppendProperties
<1>6. RoomOnly => Holds(box, mail)
  BY <1>2, <1>3, PutHolds DEF MailInv, RingsExact
<1>7. recv_queue' \in [Mboxes -> Seq(Nat)] /\ inbox' \in [Entries -> 0 .. MaxSent]
      /\ strayed' \subseteq Mboxes
  BY <1>1 DEF MailInv, MboxTableOK
<1>8. sent' = [sent EXCEPT ![b] = msg]
  OBVIOUS
<1> HIDE DEF msg, box, mail
<1>9. /\ MboxTableOK' /\ MailCounted' /\ (RoomOnly => RingsExact')
      /\ \A c \in Mboxes \ {b} : mailboxes'[c] = mailboxes[c]
  <2>1. box.size <= msg /\ Len(mail) = box.size
    BY <1>2, <1>4, <1>5 DEF msg
  <2>2. QED
    BY <2>1, <1>1, <1>3, <1>4, <1>5, <1>6, <1>7, <1>8, RingStep
<1>10. NoIdleMail'
  BY <1>1, <1>9 DEF MailInv, NoIdleMail
<1>11. /\ KernelInv' /\ IdleAlone' /\ ReceiversKnown'
       /\ UNCHANGED <<pid, next_pid>>
       /\ Live' = Live /\ Unheard' = Unheard
  BY <1>1, ListsAlone
<1>12. QED
  BY <1>1, <1>9, <1>10, <1>11 DEF MailInv, MailKeeps

(* A message that passes through the ring: it is put in, and the oldest is *)
(* taken out.                                                              *)
LEMMA PassThrough ==
  ASSUME MailInv, NEW b \in Mboxes, sent[b] < MaxSent,
         RoomOnly => mailboxes[b].size < MBOX_SIZE
  PROVE  LET msg == sent[b] + 1
             full == mbox_queue_in(mailboxes[b], msg)
             all == Append(pending[b], msg)
         IN  /\ msg \in 1 .. MaxSent
             /\ full \in Box /\ full.size = mailboxes[b].size + 1
             /\ all \in Seq(1 .. MaxSent) /\ Len(all) = full.size /\ all # <<>>
             /\ mbox_queue_out(full) \in Box
             /\ mbox_queue_out(full).size = mailboxes[b].size
             /\ Tail(all) \in Seq(1 .. MaxSent) /\ Len(Tail(all)) = mailboxes[b].size
             /\ mbox_front(full) \in 0 .. MaxSent
             /\ RoomOnly => /\ Holds(full, all)
                            /\ Holds(mbox_queue_out(full), Tail(all))
                            /\ mbox_front(full) = Head(all)
<1> DEFINE msg == sent[b] + 1
           full == mbox_queue_in(mailboxes[b], msg)
           all == Append(pending[b], msg)
<1>1. /\ mailboxes[b] \in Box
      /\ mailboxes[b].size \in Nat /\ sent[b] \in 0 .. MaxSent
      /\ pending[b] \in Seq(1 .. MaxSent) /\ Len(pending[b]) = mailboxes[b].size
  BY MailTypes
<1>2. msg \in 1 .. MaxSent
  BY <1>1
<1>3. full \in Box /\ full.size = mailboxes[b].size + 1
  BY <1>1, <1>2, BoxTypes
<1>4. all \in Seq(1 .. MaxSent) /\ Len(all) = full.size
  BY <1>1, <1>2, <1>3, AppendProperties
<1>5. RoomOnly => Holds(full, all)
  BY <1>1, <1>2, PutHolds DEF MailInv, RingsExact
<1> HIDE DEF msg, full, all
<1>6. all # <<>>
  <2>1. Len(all) # 0
    BY <1>1, <1>3, <1>4
  <2>2. Len(<<>>) = 0
    OBVIOUS
  <2> QED BY ONLY <2>1, <2>2, Zenon
<1>7. Tail(all) \in Seq(1 .. MaxSent) /\ Len(Tail(all)) = mailboxes[b].size
  <2>1. Tail(all) \in Seq(1 .. MaxSent) /\ Len(Tail(all)) = Len(all) - 1
    BY <1>4, <1>6, HeadTailProperties
  <2> QED BY <1>1, <1>3, <1>4, <2>1
<1>8. full.size > 0 /\ full.size - 1 = mailboxes[b].size
  BY <1>1, <1>3
<1>9. /\ mbox_queue_out(full) \in Box /\ mbox_queue_out(full).size = mailboxes[b].size
      /\ mbox_front(full) \in 0 .. MaxSent
  BY <1>3, <1>8, BoxTypes
<1>10. RoomOnly => Holds(mbox_queue_out(full), Tail(all)) /\ mbox_front(full) = Head(all)
  BY <1>3, <1>4, <1>5, <1>8, GetHolds
<1> QED BY <1>2, <1>3, <1>4, <1>5, <1>6, <1>7, <1>9, <1>10 DEF msg, full, all

(* The first receiver leaves a wait queue, and waits no more if it lives.  *)
LEMMA FirstLeaves ==
  ASSUME MailInv, NEW b \in Mboxes, recv_queue[b] # <<>>,
         recv_queue' = [recv_queue EXCEPT ![b] = Tail(recv_queue[b])],
         UNCHANGED <<pid, next_pid>>, Live' = Live,
         Waiting' = {i \in Waiting : pid[i] # Head(recv_queue[b])}
  PROVE  /\ recv_queue' \in [Mboxes -> Seq(Nat)]
         /\ ReceiversKnown' /\ Unheard' = Unheard
<1> DEFINE q == recv_queue[b]
           p == Head(q)
<1>1. /\ Tail(q) \in Seq(Nat)
      /\ IsInjective(Tail(q))
      /\ Range(Tail(q)) = Range(q) \ {p}
      /\ p \in Range(q)
  BY FirstReceiver
<1>2. recv_queue' \in [Mboxes -> Seq(Nat)] /\ recv_queue'[b] = Tail(q)
      /\ \A c \in Mboxes \ {b} : recv_queue'[c] = recv_queue[c]
  BY <1>1 DEF MailInv, MboxTableOK
<1> HIDE DEF q, p
<1>3. \A c \in Mboxes : Range(recv_queue'[c]) = Range(recv_queue[c]) \ {p}
  <2>1. \A c \in Mboxes \ {b} : p \notin Range(recv_queue[c])
    BY <1>1 DEF MailInv, ReceiversKnown, q
  <2> QED BY <2>1, <1>1, <1>2 DEF q
<1>4. ReceiversKnown'
  <2>1. \A c \in Mboxes : IsInjective(recv_queue'[c])
    BY <1>1, <1>2 DEF MailInv, ReceiversKnown
  <2>2. \A c, d \in Mboxes : c # d => Range(recv_queue'[c]) \cap Range(recv_queue'[d]) = {}
    BY <1>3 DEF MailInv, ReceiversKnown
  <2>3. \A c \in Mboxes : \A r \in Range(recv_queue'[c]) : 0 < r /\ r < next_pid'
    BY <1>3 DEF MailInv, ReceiversKnown
  <2>4. \A c \in Mboxes : \A i \in Live : pid[i] \in Range(recv_queue'[c]) => i \in Waiting'
    <3> SUFFICES ASSUME NEW c \in Mboxes, NEW i \in Live, pid[i] \in Range(recv_queue'[c])
                 PROVE  i \in Waiting'
      OBVIOUS
    <3>1. i \in Waiting /\ pid[i] # p
      BY <1>3 DEF MailInv, ReceiversKnown
    <3> QED BY <3>1 DEF p, q
  <2> QED BY <2>1, <2>2, <2>3, <2>4 DEF ReceiversKnown
<1>5. Unheard' = Unheard
  <2>1. \A i \in Waiting : pid[i] = p => i \notin Unheard
    BY <1>1 DEF Unheard, q
  <2> QED BY <2>1, <1>3 DEF Unheard, p, q
<1> QED BY <1>2, <1>4, <1>5

(* msg_send while somebody waits who still lives: the oldest message goes  *)
(* to the first receiver, which becomes ready.                             *)
LEMMA DeliverStep ==
  ASSUME MailInv, SystemCall, NEW b \in Mboxes, sent[b] < MaxSent,
         RoomOnly => mailboxes[b].size < MBOX_SIZE,
         sent' = [sent EXCEPT ![b] = @ + 1], Deliver(b, sent[b] + 1)
  PROVE  MailKeeps
<1> DEFINE msg == sent[b] + 1
           full == mbox_queue_in(mailboxes[b], msg)
           box == mbox_queue_out(full)
           mail == Tail(Append(pending[b], msg))
           q == recv_queue[b]
           p == Head(q)
<1>1. /\ q # <<>>
      /\ mailboxes' = [mailboxes EXCEPT ![b] = box]
      /\ recv_queue' = [recv_queue EXCEPT ![b] = Tail(q)]
      /\ pending' = [pending EXCEPT ![b] = mail]
      /\ UNCHANGED <<timeVars, tableVars, current, active_time, wake_time, strayed>>
  BY DEF Deliver
<1>2. PICK i \in EntriesOf(p) : HandMessage(b, msg, i)
  BY DEF Deliver
<1>3. /\ i \in Waiting /\ pid[i] = p
      /\ \A j, k \in Live : pid[j] = pid[k] => j = k
  BY <1>1, FirstReceiver
<1>4. /\ msg \in 0 .. MaxSent
      /\ box \in Box /\ box.size = mailboxes[b].size
      /\ mail \in Seq(1 .. MaxSent) /\ Len(mail) = box.size
      /\ mbox_front(full) \in 0 .. MaxSent
      /\ RoomOnly => Holds(box, mail)
      /\ box.size <= msg
  <2>1. /\ msg \in 1 .. MaxSent
        /\ box \in Box /\ box.size = mailboxes[b].size
        /\ mail \in Seq(1 .. MaxSent) /\ Len(mail) = mailboxes[b].size
        /\ mbox_front(full) \in 0 .. MaxSent
        /\ RoomOnly => Holds(box, mail)
    BY PassThrough, Zenon
  <2>2. mailboxes[b].size \in Nat /\ mailboxes[b].size <= sent[b] /\ sent[b] \in Nat
    BY MailTypes
  <2>3. mailboxes[b].size <= msg
    BY <2>2
  <2> HIDE DEF msg, full, box, mail
  <2> QED BY <2>1, <2>3
<1>5. sent' = [sent EXCEPT ![b] = msg] /\ UNCHANGED <<pid, next_pid>>
  BY <1>1 DEF tableVars
<1>6. /\ state' = [state EXCEPT ![i] = "RUNNING"]
      /\ run_queue' = QueueIn(run_queue, pid[i])
      /\ Continue("keyboard", ~QueueIsFull(run_queue), QueueFull)
      /\ inbox' = [inbox EXCEPT ![i] = mbox_front(full)]
  BY <1>2 DEF HandMessage
<1>7. /\ KernelInv' /\ IdleAlone' /\ UNCHANGED fault
      /\ Live' = Live /\ Waiting' = Waiting \ {i}
  BY <1>1, <1>3, <1>6, UnblockStep DEF MailInv
<1>8. Waiting' = {j \in Waiting : pid[j] # p}
  BY <1>3, <1>7 DEF Waiting, Live
<1>9. /\ recv_queue' \in [Mboxes -> Seq(Nat)]
      /\ ReceiversKnown' /\ Unheard' = Unheard
  BY <1>1, <1>5, <1>7, <1>8, FirstLeaves
<1>10. inbox' \in [Entries -> 0 .. MaxSent] /\ strayed' \subseteq Mboxes
  BY <1>1, <1>4, <1>6 DEF MailInv, MboxTableOK
<1> HIDE DEF msg, box, mail, full
<1>11. /\ MboxTableOK' /\ MailCounted' /\ (RoomOnly => RingsExact')
       /\ mailboxes'[b] = box
       /\ \A c \in Mboxes \ {b} : mailboxes'[c] = mailboxes[c]
  BY <1>1, <1>4, <1>5, <1>9, <1>10, RingStep
<1>12. NoIdleMail'
  <2>1. \A c \in Mboxes \ {b} : recv_queue'[c] = recv_queue[c]
    BY <1>1 DEF MailInv, MboxTableOK
  <2> QED BY <1>1, <1>4, <1>11, <2>1 DEF MailInv, NoIdleMail
<1> QED
  BY <1>5, <1>7, <1>9, <1>11, <1>12 DEF MailInv, MailKeeps

(* msg_send while the first receiver has exited: it leaves the wait queue, *)
(* and the message stays, or the oldest is gone.                           *)
LEMMA MisdeliverStep ==
  ASSUME MailInv, SystemCall, NEW b \in Mboxes, sent[b] < MaxSent,
         RoomOnly => mailboxes[b].size < MBOX_SIZE,
         sent' = [sent EXCEPT ![b] = @ + 1], Misdeliver(b, sent[b] + 1)
  PROVE  MailKeeps
<1> DEFINE msg == sent[b] + 1
           full == mbox_queue_in(mailboxes[b], msg)
           all == Append(pending[b], msg)
           q == recv_queue[b]
           p == Head(q)
<1>1. /\ q # <<>> /\ EntriesOf(p) = {}
      /\ recv_queue' = [recv_queue EXCEPT ![b] = Tail(q)]
      /\ strayed' = strayed \cup {b}
      /\ kpc' = "keyboard"
      /\ UNCHANGED <<timeVars, tableVars, schedVars, fault>>
  BY DEF Misdeliver
<1>2. UNCHANGED <<pid, next_pid>>
  BY <1>1 DEF tableVars
<1>3. /\ KernelInv' /\ IdleAlone' /\ Live' = Live /\ Waiting' = Waiting
  BY <1>1, ReturnStep DEF MailInv, SystemCall
<1>4. Waiting' = {i \in Waiting : pid[i] # p}
  <2>1. \A i \in Live : pid[i] # p
    BY <1>1, FirstReceiver
  <2> QED BY <1>3, <2>1 DEF Waiting, Live
<1>5. /\ recv_queue' \in [Mboxes -> Seq(Nat)]
      /\ ReceiversKnown' /\ Unheard' = Unheard
  BY <1>1, <1>2, <1>3, <1>4, FirstLeaves
<1>6. /\ inbox \in [Entries -> 0 .. MaxSent]
      /\ LastEntry \in Entries
      /\ strayed' \subseteq Mboxes
  BY <1>1, ProcAssumption DEF MailInv, MboxTableOK, LastEntry, Entries
<1>7. sent' = [sent EXCEPT ![b] = msg] /\ msg \in 0 .. MaxSent
  <2>1. sent[b] + 1 \in 1 .. MaxSent
    BY PassThrough
  <2>2. \A n \in 1 .. MaxSent : n \in 0 .. MaxSent
    OBVIOUS
  <2>3. msg \in 0 .. MaxSent
    BY <2>1, <2>2
  <2> QED BY <2>3
<1>8. /\ MboxTableOK' /\ MailCounted' /\ (RoomOnly => RingsExact')
      /\ \A c \in Mboxes \ {b} : mailboxes'[c] = mailboxes[c]
  <2>1. CASE Keep(b, msg)
    <3>1. /\ mailboxes' = [mailboxes EXCEPT ![b] = full]
          /\ pending' = [pending EXCEPT ![b] = all]
          /\ inbox' = inbox
      BY <2>1 DEF Keep
    <3>2. /\ full \in Box /\ all \in Seq(1 .. MaxSent) /\ Len(all) = full.size
          /\ RoomOnly => Holds(full, all)
          /\ full.size <= msg
      BY PassThrough, MailTypes
    <3> HIDE DEF msg, full, all
    <3> QED BY <1>5, <1>6, <1>7, <3>1, <3>2, RingStep
  <2>2. CASE Stray(b, msg)
    <3> DEFINE box == mbox_queue_out(full)
               mail == Tail(all)
    <3>1. /\ mailboxes' = [mailboxes EXCEPT ![b] = box]
          /\ pending' = [pending EXCEPT ![b] = mail]
          /\ inbox' = inbox \/ inbox' = [inbox EXCEPT ![LastEntry] = mbox_front(full)]
      BY <2>2 DEF Stray
    <3>2. /\ box \in Box /\ mail \in Seq(1 .. MaxSent) /\ Len(mail) = box.size
          /\ RoomOnly => Holds(box, mail)
          /\ box.size <= msg
          /\ mbox_front(full) \in 0 .. MaxSent
      BY PassThrough, MailTypes, SMTT(40)
    <3> HIDE DEF msg, full, all, box, mail
    <3>3. inbox' \in [Entries -> 0 .. MaxSent]
      BY <1>6, <3>1, <3>2
    <3> QED BY <1>5, <1>6, <1>7, <3>1, <3>2, <3>3, RingStep
  <2> QED BY <2>1, <2>2 DEF Misdeliver
<1>9. NoIdleMail'
  <2>1. \A c \in Mboxes \ {b} : recv_queue'[c] = recv_queue[c]
    BY <1>1 DEF MailInv, MboxTableOK
  <2> QED BY <1>1, <1>8, <2>1 DEF MailInv, NoIdleMail
<1> QED
  BY <1>1, <1>2, <1>3, <1>5, <1>8, <1>9 DEF MailInv, MailKeeps

LEMMA SendStep ==
  ASSUME MailInv, NEW b \in MboxArgs, ksyscall_msg_send(b)
  PROVE  MailKeeps
<1>1. SystemCall
  BY DEF ksyscall_msg_send
<1>2. CASE Refused(b)
  BY <1>1, <1>2, RefusedMail
<1>3. CASE ~Refused(b)
  BY <1>1, <1>3, DepositStep, DeliverStep, MisdeliverStep DEF ksyscall_msg_send
<1>4. QED
  BY <1>2, <1>3

(* msg_recv on an empty mailbox: the caller waits, or the wait queue is    *)
(* full of receivers that have exited.                                     *)
LEMMA AwaitStep ==
  ASSUME MailInv, SystemCall, NEW b \in Mboxes, Await(b),
         UNCHANGED <<timeVars, tableVars, current, active_time, wake_time, sent, strayed>>
  PROVE  MailKeeps
<1> DEFINE p == pid[current]
           q == recv_queue[b]
<1>1. /\ current \in Live \ {0} /\ current \in Entries /\ current \notin Waiting
      /\ 0 < p /\ p < next_pid /\ p \in Nat
      /\ p \notin Range(run_queue)
      /\ \A c \in Mboxes : p \notin Range(recv_queue[c])
      /\ \A i \in Live : pid[i] = p => i = current
  BY CallerNotListed
<1>2. /\ mailboxes[b].size = 0
      /\ recv_queue' = [recv_queue EXCEPT ![b] = QueueIn(@, p)]
      /\ Continue("keyboard", ~QueueIsFull(q), WaitQueueFull)
      /\ IF QueueIsFull(q)
         THEN UNCHANGED <<state, run_queue>>
         ELSE /\ state' = [state EXCEPT ![current] = "WAITING"]
              /\ run_queue' = SchedulerRemove(run_queue, p)
      /\ UNCHANGED <<mailboxes, inbox, pending>>
  BY DEF Await
<1>3. q \in Seq(Nat) /\ IsInjective(q)
  BY MailTypes
<1>4. UNCHANGED <<pid, next_pid>>
  BY DEF tableVars
<1>5. CASE QueueIsFull(q)
  <2>1. /\ UNCHANGED <<timeVars, tableVars, schedVars, recv_queue>>
        /\ kpc' = "halted" /\ fault' = WaitQueueFull
    <3>1. QueueIn(q, p) = q
      BY <1>5 DEF QueueIn, QueueIsFull
    <3>2. recv_queue' = [recv_queue EXCEPT ![b] = q]
      BY <1>2, <3>1
    <3>3. recv_queue' = recv_queue
      BY <3>2 DEF MailInv, MboxTableOK
    <3>4. QED
      BY <1>2, <1>5, <3>3 DEF Continue, schedVars
  <2>2. /\ KernelInv' /\ IdleAlone' /\ ReceiversKnown'
        /\ Live' = Live /\ Unheard' = Unheard
    BY <2>1, ListsAlone
  <2>3. MboxTableOK' /\ MailCounted' /\ NoIdleMail' /\ (RoomOnly => RingsExact')
    BY <1>2, <2>1 DEF MailInv, MboxTableOK, MailCounted, NoIdleMail, RingsExact
  <2>4. QED
    BY <1>4, <2>1, <2>2, <2>3 DEF MailInv, MailKeeps
<1>6. CASE ~QueueIsFull(q)
  <2> DEFINE r == Append(q, p)
  <2>1. /\ recv_queue' = [recv_queue EXCEPT ![b] = r]
        /\ state' = [state EXCEPT ![current] = "WAITING"]
        /\ run_queue' = run_queue
        /\ kpc' = "keyboard" /\ fault' = fault
    <3>1. QueueIn(q, p) = r
      BY <1>6 DEF QueueIn, QueueIsFull
    <3>2. SchedulerRemove(run_queue, p) = run_queue
      BY <1>1, RemoveAbsent
    <3>3. QED
      BY <1>2, <1>6, <3>1, <3>2 DEF Continue
  <2>2. /\ KernelInv' /\ IdleAlone'
        /\ Live' = Live /\ Waiting' = Waiting \cup {current}
    BY <2>1, BlockStep DEF MailInv
  <2>3. r \in Seq(Nat) /\ Range(r) = Range(q) \cup {p} /\ IsInjective(r)
    BY <1>1, <1>3, AppendFacts, AppendProperties
  <2>4. /\ recv_queue' \in [Mboxes -> Seq(Nat)]
        /\ recv_queue'[b] = r
        /\ \A c \in Mboxes \ {b} : recv_queue'[c] = recv_queue[c]
    <3> HIDE DEF r
    <3>1. QED
      BY <2>1, <2>3 DEF MailInv, MboxTableOK
  <2>5. MboxTableOK' /\ MailCounted' /\ (RoomOnly => RingsExact')
    BY <1>2, <2>4 DEF MailInv, MboxTableOK, MailCounted, RingsExact
  <2>6. NoIdleMail'
    BY <1>2, <2>4 DEF MailInv, NoIdleMail
  <2> HIDE DEF q, r
  <2>7. \A c \in Mboxes : Range(recv_queue'[c]) = IF c = b THEN Range(recv_queue[c]) \cup {p}
                                                  ELSE Range(recv_queue[c])
    BY <2>3, <2>4 DEF q
  <2>8. ReceiversKnown'
    <3>1. \A c \in Mboxes : IsInjective(recv_queue'[c])
      BY <2>3, <2>4 DEF MailInv, ReceiversKnown
    <3>2. \A c, d \in Mboxes : c # d => Range(recv_queue'[c]) \cap Range(recv_queue'[d]) = {}
      <4> SUFFICES ASSUME NEW c \in Mboxes, NEW d \in Mboxes, c # d
                   PROVE  Range(recv_queue'[c]) \cap Range(recv_queue'[d]) = {}
        OBVIOUS
      <4>1. Range(recv_queue[c]) \cap Range(recv_queue[d]) = {}
        BY DEF MailInv, ReceiversKnown
      <4>2. p \notin Range(recv_queue[c]) /\ p \notin Range(recv_queue[d])
        BY <1>1
      <4> HIDE DEF p
      <4>3. QED
        BY <2>7, <4>1, <4>2
    <3>3. \A c \in Mboxes : \A x \in Range(recv_queue'[c]) : 0 < x /\ x < next_pid'
      BY <1>1, <1>4, <2>7 DEF MailInv, ReceiversKnown
    <3>4. \A c \in Mboxes : \A i \in Live : pid[i] \in Range(recv_queue'[c]) => i \in Waiting'
      BY <1>1, <2>2, <2>7 DEF MailInv, ReceiversKnown
    <3>5. QED
      BY <3>1, <3>2, <3>3, <3>4, <1>4, <2>2 DEF ReceiversKnown
  <2>9. Unheard' = Unheard
    <3>1. \A i \in Waiting : pid[i] # p
      BY <1>1 DEF Waiting, Live
    <3>2. QED
      BY <3>1, <1>4, <2>2, <2>7 DEF Unheard
  <2>10. QED
    BY <1>4, <2>1, <2>2, <2>5, <2>6, <2>8, <2>9 DEF MailInv, MailKeeps
<1>7. QED
  BY <1>5, <1>6

(* msg_recv on a mailbox that holds a message.                             *)
LEMMA TakeStep ==
  ASSUME MailInv, SystemCall, NEW b \in Mboxes, Take(b),
         UNCHANGED <<timeVars, tableVars, current, active_time, wake_time, sent, strayed>>
  PROVE  MailKeeps
<1> DEFINE box == mbox_queue_out(mailboxes[b])
           mail == Tail(pending[b])
<1>1. /\ mailboxes[b].size # 0
      /\ inbox' = [inbox EXCEPT ![current] = mbox_front(mailboxes[b])]
      /\ mailboxes' = [mailboxes EXCEPT ![b] = box]
      /\ pending' = [pending EXCEPT ![b] = mail]
      /\ kpc' = "keyboard"
      /\ UNCHANGED <<run_queue, state, fault, recv_queue>>
  BY DEF Take
<1>2. /\ mailboxes[b] \in Box
      /\ mailboxes[b].size \in Nat /\ mailboxes[b].size <= sent[b]
      /\ sent[b] \in 0 .. MaxSent
      /\ pending[b] \in Seq(1 .. MaxSent) /\ Len(pending[b]) = mailboxes[b].size
  BY MailTypes
<1>3. mailboxes[b].size > 0
  BY <1>1, <1>2
<1>4. /\ box \in Box /\ box.size = mailboxes[b].size - 1
      /\ mbox_front(mailboxes[b]) \in 0 .. MaxSent
  BY <1>2, <1>3, BoxTypes
<1>5. mail \in Seq(1 .. MaxSent) /\ Len(mail) = Len(pending[b]) - 1
  <2>1. pending[b] # <<>>
    BY <1>2, <1>3
  <2>2. QED
    BY <1>2, <2>1, HeadTailProperties
<1>6. RoomOnly => Holds(box, mail)
  BY <1>2, <1>3, GetHolds DEF MailInv, RingsExact
<1>7. recv_queue' \in [Mboxes -> Seq(Nat)] /\ inbox' \in [Entries -> 0 .. MaxSent]
      /\ strayed' \subseteq Mboxes
  BY <1>1, <1>4 DEF MailInv, MboxTableOK
<1>8. sent' = [sent EXCEPT ![b] = sent[b]]
  BY DEF MailInv, MboxTableOK
<1> HIDE DEF box, mail
<1>9. /\ MboxTableOK' /\ MailCounted' /\ (RoomOnly => RingsExact')
      /\ mailboxes'[b] = box
      /\ \A c \in Mboxes \ {b} : mailboxes'[c] = mailboxes[c]
  <2>1. box.size <= sent[b] /\ Len(mail) = box.size
    BY <1>2, <1>4, <1>5
  <2>2. QED
    BY <2>1, <1>1, <1>2, <1>4, <1>5, <1>6, <1>7, <1>8, RingStep
<1>10. NoIdleMail'
  BY <1>1, <1>9 DEF MailInv, NoIdleMail
<1>11. /\ KernelInv' /\ IdleAlone' /\ ReceiversKnown'
       /\ UNCHANGED <<pid, next_pid>>
       /\ Live' = Live /\ Unheard' = Unheard
  BY <1>1, ListsAlone DEF schedVars
<1>12. QED
  BY <1>1, <1>9, <1>10, <1>11 DEF MailInv, MailKeeps

LEMMA RecvStep ==
  ASSUME MailInv, NEW b \in MboxArgs, ksyscall_msg_recv(b)
  PROVE  MailKeeps
<1>1. SystemCall
  BY DEF ksyscall_msg_recv
<1>2. CASE Refused(b)
  BY <1>1, <1>2, RefusedMail
<1>3. CASE ~Refused(b)
  BY <1>1, <1>3, AwaitStep, TakeStep DEF ksyscall_msg_recv
<1>4. QED
  BY <1>2, <1>3

-----------------------------------------------------------------------------
(* The invariant holds at boot and is preserved by every step.             *)

LEMMA MboxInitInv == MboxInit => MboxInv
<1> SUFFICES ASSUME MboxInit
             PROVE  MboxInv
  OBVIOUS
<1>1. KernelInv /\ IdleAlone /\ Waiting = {} /\ fault = NoFault
  <2>1. ProcInit
    BY DEF MboxInit
  <2>2. IdleAlone /\ Waiting = {}
    BY <2>1, EntriesFinite DEF ProcInit, IdleAlone, Waiting
  <2>3. QED
    BY <2>1, <2>2, InitInv DEF ProcInit
<1>2. /\ mailboxes = [b \in Mboxes |-> EmptyBox]
      /\ recv_queue = [b \in Mboxes |-> <<>>]
      /\ inbox = [i \in Entries |-> 0]
      /\ sent = [b \in Mboxes |-> 0]
      /\ pending = [b \in Mboxes |-> <<>>]
      /\ strayed = {}
  BY DEF MboxInit
<1>3. EmptyBox \in [messages : [Cells -> 0 .. MaxSent], head : Cells,
                    tail : Cells, size : 0 .. MaxSent]
  BY DEF EmptyBox, Cells
<1>4. EmptyBox.size = 0 /\ EmptyBox \in Box
  BY DEF EmptyBox, Cells, Box
<1>5. /\ <<>> \in Seq(Nat) /\ <<>> \in Seq(1 .. MaxSent) /\ Len(<<>>) = 0
      /\ Range(<<>>) = {} /\ IsInjective(<<>>)
  BY DEF Range, IsInjective
<1>6. MboxTableOK
  BY <1>2, <1>3, <1>5 DEF MboxTableOK
<1>7. MailCounted /\ NoIdleMail /\ ReceiversKnown
  BY <1>2, <1>4, <1>5 DEF MailCounted, NoIdleMail, ReceiversKnown
<1>8. RingsExact
  <2>1. EmptyBox.tail = CellAt(EmptyBox, 0)
    BY <1>4, CellAtFacts DEF EmptyBox
  <2>2. Holds(EmptyBox, <<>>)
    BY <1>4, <1>5, <2>1 DEF Holds, Keeps
  <2>3. QED
    BY <1>2, <2>2 DEF RingsExact
<1>9. QED
  BY <1>1, <1>6, <1>7, <1>8 DEF MboxInv, MailInv, Unheard, MboxFaults, Faults

LEMMA MboxNextInv ==
  ASSUME MboxInv, [MboxNext]_mboxSysVars
  PROVE  MboxInv'
<1>1. MailInv /\ Unheard = {}
  BY DEF MboxInv
<1>2. CASE [ProcNext]_procVars /\ UNCHANGED mboxVars
  <2>1. MailInv' /\ Unheard' = Unheard \cap Waiting'
    BY <1>1, <1>2, MailProcStep
  <2>2. fault' \in Faults \cup {fault}
    BY <1>1, <1>2, NextInv DEF MailInv, Faults
  <2>3. QED
    BY <1>1, <2>1, <2>2 DEF MboxInv, MboxFaults
<1>3. ASSUME MailKeeps
      PROVE  MboxInv'
  BY <1>3 DEF MailKeeps, MboxInv, MboxFaults
<1>4. CASE \E b \in MboxArgs : ksyscall_msg_send(b)
  BY <1>1, <1>3, <1>4, SendStep
<1>5. CASE \E b \in MboxArgs : ksyscall_msg_recv(b)
  BY <1>1, <1>3, <1>5, RecvStep
<1>6. CASE UNCHANGED mboxSysVars
  BY <1>2, <1>6 DEF mboxSysVars
<1>7. QED
  BY <1>2, <1>4, <1>5, <1>6 DEF MboxNext

LEMMA MboxSpecInv == MboxSpec => []MboxInv
BY MboxInitInv, MboxNextInv, PTL DEF MboxSpec

(* The rings hold what is pending.                                         *)
LEMMA RingsHold == RoomOnly /\ MailInv => MailIntact
<1> SUFFICES ASSUME RoomOnly, MailInv, NEW b \in Mboxes
             PROVE  MboxContents(mailboxes[b]) = pending[b]
  BY DEF MailIntact
<1>1. mailboxes[b] \in Box /\ pending[b] \in Seq(1 .. MaxSent)
  BY MailTypes
<1>2. Keeps(mailboxes[b], mailboxes[b].messages, pending[b])
  BY DEF MailInv, RingsExact, Holds
<1>3. [mailboxes[b] EXCEPT !.messages = mailboxes[b].messages] = mailboxes[b]
  BY <1>1 DEF Box
<1> QED BY <1>1, <1>2, <1>3, ReadKeeps

-----------------------------------------------------------------------------
(* The fields of the messages, module MailTimes.                           *)

Fields == [sender : Int, time_sent : Int]

(* Messages in the order of their sending times, none sent later than time *)
(* or by a process whose id is yet to be given out.                        *)
InOrder(msgs, ids, time) ==
  \A k \in 1 .. Len(msgs) :
    /\ msgs[k].sender \in 1 .. ids - 1
    /\ msgs[k].time_sent \in 0 .. time
    /\ k > 1 => msgs[k - 1].time_sent <= msgs[k].time_sent

TimesInv ==
  /\ MboxInv
  /\ fields \in [Mboxes -> [Cells -> Fields]]
  /\ MailChronological

LEMMA Division ==
  ASSUME NEW t \in Nat
  PROVE  /\ t = CLK_TCK * (t \div CLK_TCK) + (t % CLK_TCK)
         /\ t \div CLK_TCK \in Nat
         /\ t % CLK_TCK \in 0 .. CLK_TCK - 1
<1>1. CLK_TCK \in Nat \ {0}
  BY ProcAssumption
<1>2. QED
  BY <1>1

LEMMA Multiples ==
  ASSUME NEW d \in Nat \ {0}, NEW a \in Int, NEW b \in Int, a < b
  PROVE  d * a + d <= d * b
<1>1. PICK n \in Nat : b = a + 1 + n
  <2>1. b - a - 1 \in Nat /\ b = a + 1 + (b - a - 1)
    OBVIOUS
  <2>2. QED
    BY <2>1
<1>2. d * b = d * a + d + d * n
  BY <1>1
<1>3. d * n \in Nat /\ d * a \in Int
  OBVIOUS
<1>4. QED
  BY <1>2, <1>3

(* The clock that counts seconds never goes back.                          *)
LEMMA SecondsGrow ==
  ASSUME NEW t \in Nat
  PROVE  t \div CLK_TCK \in Nat /\ t \div CLK_TCK <= (t + 1) \div CLK_TCK
<1> DEFINE now == t \div CLK_TCK
           later == (t + 1) \div CLK_TCK
           r == t % CLK_TCK
           s == (t + 1) % CLK_TCK
<1>1. /\ t = CLK_TCK * now + r /\ now \in Nat /\ r \in 0 .. CLK_TCK - 1
      /\ t + 1 = CLK_TCK * later + s /\ later \in Nat /\ s \in 0 .. CLK_TCK - 1
  BY Division
<1> HIDE DEF now, later, r, s
<1>2. CLK_TCK \in Nat \ {0} /\ CLK_TCK * now \in Int /\ CLK_TCK * later \in Int
  BY <1>1, ProcAssumption
<1>3. ASSUME later < now
      PROVE  FALSE
  <2>1. CLK_TCK * later + CLK_TCK <= CLK_TCK * now
    BY <1>1, <1>2, <1>3, Multiples
  <2>2. QED
    BY <1>1, <1>2, <2>1
<1>4. now <= later
  BY <1>1, <1>3
<1>5. QED
  BY <1>1, <1>4 DEF now, later

LEMMA InOrderSteps ==
  ASSUME NEW msgs \in Seq(Fields), NEW ids \in Nat, NEW time \in Nat, InOrder(msgs, ids, time)
  PROVE  /\ \A msg \in Fields :
              /\ Append(msgs, msg) \in Seq(Fields)
              /\ Len(Append(msgs, msg)) = Len(msgs) + 1
              /\ msg.sender \in 1 .. ids - 1 /\ msg.time_sent = time
                   => InOrder(Append(msgs, msg), ids, time)
         /\ msgs # <<>> => /\ Tail(msgs) \in Seq(Fields)
                           /\ Len(Tail(msgs)) = Len(msgs) - 1
                           /\ InOrder(Tail(msgs), ids, time)
         /\ \A i, t \in Nat : ids <= i /\ time <= t => InOrder(msgs, i, t)
<1>1. Len(msgs) \in Nat /\ \A k \in 1 .. Len(msgs) : msgs[k] \in Fields
  BY LenProperties
<1>2. ASSUME NEW msg \in Fields
      PROVE  /\ Append(msgs, msg) \in Seq(Fields)
             /\ Len(Append(msgs, msg)) = Len(msgs) + 1
             /\ msg.sender \in 1 .. ids - 1 /\ msg.time_sent = time
                  => InOrder(Append(msgs, msg), ids, time)
  <2> DEFINE new == Append(msgs, msg)
  <2>1. /\ new \in Seq(Fields) /\ Len(new) = Len(msgs) + 1
        /\ \A k \in 1 .. Len(msgs) : new[k] = msgs[k]
        /\ new[Len(msgs) + 1] = msg
    BY AppendProperties
  <2> HIDE DEF new
  <2>2. ASSUME msg.sender \in 1 .. ids - 1, msg.time_sent = time, NEW k \in 1 .. Len(new)
        PROVE  /\ new[k].sender \in 1 .. ids - 1
               /\ new[k].time_sent \in 0 .. time
               /\ k > 1 => new[k - 1].time_sent <= new[k].time_sent
    <3>1. CASE k = Len(msgs) + 1
      <4>1. k > 1 => k - 1 \in 1 .. Len(msgs)
        BY <1>1, <3>1
      <4>2. k > 1 => new[k - 1].time_sent <= time
        BY <4>1, <2>1, SMTT(40) DEF InOrder
      <4>3. QED
        BY <2>1, <2>2, <3>1, <4>2
    <3>2. CASE k # Len(msgs) + 1
      <4>1. k \in 1 .. Len(msgs) /\ (k > 1 => k - 1 \in 1 .. Len(msgs))
        BY <1>1, <2>1, <3>2
      <4>2. QED
        BY <4>1, <2>1 DEF InOrder
    <3>3. QED
      BY <3>1, <3>2
  <2>3. QED
    BY <2>1, <2>2 DEF InOrder, new
<1>3. ASSUME msgs # <<>>
      PROVE  /\ Tail(msgs) \in Seq(Fields)
             /\ Len(Tail(msgs)) = Len(msgs) - 1
             /\ InOrder(Tail(msgs), ids, time)
  <2> DEFINE new == Tail(msgs)
  <2>1. /\ new \in Seq(Fields) /\ Len(new) = Len(msgs) - 1
        /\ \A k \in 1 .. Len(new) : new[k] = msgs[k + 1]
    BY <1>3, HeadTailProperties
  <2> HIDE DEF new
  <2>2. ASSUME NEW k \in 1 .. Len(new)
        PROVE  /\ new[k].sender \in 1 .. ids - 1
               /\ new[k].time_sent \in 0 .. time
               /\ k > 1 => new[k - 1].time_sent <= new[k].time_sent
    <3>1. /\ k + 1 \in 1 .. Len(msgs) /\ (k + 1) - 1 = k /\ k + 1 > 1
          /\ k > 1 => k - 1 \in 1 .. Len(new) /\ (k - 1) + 1 = k
      BY <1>1, <2>1
    <3>2. new[k] = msgs[k + 1] /\ (k > 1 => new[k - 1] = msgs[(k - 1) + 1])
      BY <2>1, <3>1
    <3>3. /\ msgs[k + 1].sender \in 1 .. ids - 1
          /\ msgs[k + 1].time_sent \in 0 .. time
          /\ msgs[(k + 1) - 1].time_sent <= msgs[k + 1].time_sent
      BY <3>1 DEF InOrder
    <3>4. QED
      BY <3>1, <3>2, <3>3
  <2>3. QED
    BY <2>1, <2>2 DEF InOrder, new
<1>4. ASSUME NEW i \in Nat, NEW t \in Nat, ids <= i, time <= t
      PROVE  InOrder(msgs, i, t)
  BY <1>4 DEF InOrder
<1>5. QED
  BY <1>2, <1>3, <1>4

(* The cells between head and tail hold a list of fields, in order.        *)
LEMMA FieldsListed ==
  ASSUME RoomOnly, TimesInv, NEW b \in Mboxes
  PROVE  /\ mailboxes[b] \in Box /\ mailboxes[b].size \in Nat
         /\ fields[b] \in [Cells -> Fields]
         /\ FieldsIn(b) \in Seq(Fields)
         /\ Keeps(mailboxes[b], fields[b], FieldsIn(b))
         /\ InOrder(FieldsIn(b), next_pid, Seconds)
<1> DEFINE box == mailboxes[b]
           list == FieldsIn(b)
           size == box.size
<1>1. box \in Box /\ size \in Nat /\ fields[b] \in [Cells -> Fields]
  BY MailTypes DEF TimesInv, MboxInv
<1>2. size <= MBOX_SIZE /\ box.tail = CellAt(box, size)
  BY DEF TimesInv, MboxInv, MailInv, RingsExact, Holds, Keeps
<1>3. list = [k \in 1 .. size |-> fields[b][(box.head + k - 1) % MBOX_SIZE]]
  <2>1. /\ [box EXCEPT !.messages = fields[b]].size = size
        /\ [box EXCEPT !.messages = fields[b]].head = box.head
        /\ [box EXCEPT !.messages = fields[b]].messages = fields[b]
    BY <1>1 DEF Box
  <2> QED BY <2>1 DEF FieldsIn, MboxContents
<1>4. \A k \in 1 .. size : list[k] = fields[b][CellAt(box, k - 1)]
  <2>1. \A k \in 1 .. size : box.head + k - 1 = box.head + (k - 1)
    BY <1>1 DEF Box, Cells
  <2> HIDE DEF list
  <2> QED BY <1>3, <2>1 DEF CellAt
<1>5. \A k \in 1 .. size : CellAt(box, k - 1) \in Cells
  <2>1. \A k \in 1 .. size : k - 1 \in 0 .. MBOX_SIZE
    BY <1>1, <1>2
  <2> HIDE DEF size, box
  <2> QED BY <1>1, <2>1, CellAtFacts
<1> HIDE DEF box, list, size
<1>6. list \in Seq(Fields) /\ Len(list) = size
  <2>1. list = [k \in 1 .. size |-> list[k]]
    BY <1>3
  <2>2. \A k \in 1 .. size : list[k] \in Fields
    BY <1>1, <1>4, <1>5
  <2>3. list \in [1 .. size -> Fields]
    BY <2>1, <2>2
  <2> QED BY <1>1, <2>3, SeqDef, LenProperties
<1>7. Keeps(box, fields[b], list)
  BY <1>2, <1>4, <1>6 DEF Keeps, size
<1>8. InOrder(list, next_pid, Seconds)
  BY <1>6 DEF TimesInv, MailChronological, InOrder, list, size, box
<1> QED BY <1>1, <1>6, <1>7, <1>8 DEF box, list, size

(* The steps of module KProc leave the messages alone; time and ids grow.  *)
LEMMA TimesProcStep ==
  ASSUME RoomOnly, TimesInv, [ProcNext]_procVars, UNCHANGED <<mboxVars, fields>>
  PROVE  MailChronological'
<1>1. KernelInv /\ KernelInv'
  BY NextInv DEF TimesInv, MboxInv, MailInv
<1>2. /\ next_pid \in Nat /\ next_pid' \in Nat /\ next_pid <= next_pid'
      /\ system_time \in Nat
  BY <1>1, IdsStay DEF KernelInv, TableTypeOK
<1>3. system_time' \in {system_time, system_time + 1}
  BY DEF ProcNext, Timer, SyscallQuery, SyscallYield, SyscallSleep, SyscallExec,
         SyscallExit, KeyNone, KeyExec, KeyExit, KeyQuit, SchedulerRun, timeVars, procVars
<1>4. Seconds \in Nat /\ Seconds' \in Nat /\ Seconds <= Seconds'
  <2>1. CASE system_time' = system_time
    BY <1>2, <2>1, SecondsGrow DEF Seconds
  <2>2. CASE system_time' = system_time + 1
    BY <1>2, <2>2, SecondsGrow DEF Seconds
  <2> QED BY <1>3, <2>1, <2>2
<1> SUFFICES ASSUME NEW b \in Mboxes, NEW k \in 1 .. mailboxes[b].size
             PROVE  /\ FieldsIn(b)[k].sender \in 1 .. next_pid' - 1
                    /\ FieldsIn(b)[k].time_sent \in 0 .. Seconds'
                    /\ k > 1 => FieldsIn(b)[k - 1].time_sent <= FieldsIn(b)[k].time_sent
  BY DEF MailChronological, FieldsIn, mboxVars
<1>5. /\ FieldsIn(b)[k].sender \in 1 .. next_pid - 1
      /\ FieldsIn(b)[k].time_sent \in 0 .. Seconds
      /\ k > 1 => FieldsIn(b)[k - 1].time_sent <= FieldsIn(b)[k].time_sent
  BY DEF TimesInv, MailChronological
<1> QED BY <1>2, <1>4, <1>5

(* A call on mailbox b changes its fields and no other's.                  *)
LEMMA TimesOneBox ==
  ASSUME RoomOnly, TimesInv, NEW b \in Mboxes, NEW cells \in [Cells -> Fields],
         NEW list \in Seq(Fields), NEW box \in Box,
         UNCHANGED <<next_pid, system_time>>,
         fields' = [fields EXCEPT ![b] = cells],
         mailboxes' = [mailboxes EXCEPT ![b] = box],
         Keeps(box, cells, list), InOrder(list, next_pid, Seconds)
  PROVE  fields' \in [Mboxes -> [Cells -> Fields]] /\ MailChronological'
<1>1. /\ fields' \in [Mboxes -> [Cells -> Fields]]
      /\ fields'[b] = cells
      /\ \A c \in Mboxes \ {b} : fields'[c] = fields[c]
  BY DEF TimesInv
<1>2. /\ mailboxes'[b] = box
      /\ \A c \in Mboxes \ {b} : mailboxes'[c] = mailboxes[c]
  BY DEF TimesInv, MboxInv, MailInv, MboxTableOK
<1>3. Seconds' = Seconds
  BY DEF Seconds
<1>4. FieldsIn(b)' = list /\ Len(list) = box.size
  <2>1. MboxContents([box EXCEPT !.messages = cells]) = list
    BY ReadKeeps
  <2>2. FieldsIn(b)' = MboxContents([mailboxes'[b] EXCEPT !.messages = fields'[b]])
    BY DEF FieldsIn, MboxContents
  <2> QED BY <1>1, <1>2, <2>1, <2>2 DEF Keeps
<1>5. \A c \in Mboxes \ {b} : FieldsIn(c)' = FieldsIn(c)
  <2> SUFFICES ASSUME NEW c \in Mboxes \ {b}
               PROVE  FieldsIn(c)' = FieldsIn(c)
    OBVIOUS
  <2>1. FieldsIn(c)' = MboxContents([mailboxes'[c] EXCEPT !.messages = fields'[c]])
    BY DEF FieldsIn, MboxContents
  <2> QED BY <1>1, <1>2, <2>1 DEF FieldsIn
<1> SUFFICES ASSUME NEW c \in Mboxes, NEW k \in 1 .. mailboxes'[c].size
             PROVE  /\ FieldsIn(c)'[k].sender \in 1 .. next_pid - 1
                    /\ FieldsIn(c)'[k].time_sent \in 0 .. Seconds
                    /\ k > 1 => FieldsIn(c)'[k - 1].time_sent <= FieldsIn(c)'[k].time_sent
  BY <1>1, <1>3 DEF MailChronological
<1>6. CASE c = b
  BY <1>2, <1>4, <1>6 DEF InOrder
<1>7. CASE c # b
  BY <1>2, <1>5, <1>7 DEF TimesInv, MailChronological
<1> QED BY <1>6, <1>7

(* A message goes to the cell at tail, and one may be taken from the cell  *)
(* at head at once.                                                        *)
LEMMA TimesSend ==
  ASSUME RoomOnly, TimesInv, NEW b \in MboxArgs \cap Mboxes,
         ksyscall_msg_send(b), SendFields(b)
  PROVE  fields' \in [Mboxes -> [Cells -> Fields]] /\ MailChronological'
<1>1. /\ mailboxes[b] \in Box /\ mailboxes[b].size \in Nat
      /\ fields[b] \in [Cells -> Fields]
      /\ FieldsIn(b) \in Seq(Fields)
      /\ Keeps(mailboxes[b], fields[b], FieldsIn(b))
      /\ InOrder(FieldsIn(b), next_pid, Seconds)
  BY FieldsListed
<1>2. /\ next_pid \in Nat /\ Seconds \in Nat
      /\ Addressed \in Fields /\ Cleared \in Fields
      /\ Addressed.sender \in 1 .. next_pid - 1 /\ Addressed.time_sent = Seconds
  <2>1. /\ next_pid \in Nat /\ Seconds \in Nat
    BY SecondsGrow DEF TimesInv, MboxInv, MailInv, KernelInv, TableTypeOK, Seconds
  <2>2. 0 < pid[current] /\ pid[current] < next_pid /\ pid[current] \in Nat
    BY CallerNotListed DEF ksyscall_msg_send, TimesInv, MboxInv
  <2> QED BY <2>1, <2>2 DEF Addressed, Cleared, Fields
<1> DEFINE box == mailboxes[b]
           msg == sent[b] + 1
           full == mbox_queue_in(box, msg)
           put == [fields[b] EXCEPT ![box.tail] = Addressed]
           list == Append(FieldsIn(b), Addressed)
<1>3. /\ sent[b] < MaxSent /\ box.size < MBOX_SIZE
      /\ Deposit(b, msg) \/ Deliver(b, msg) \/ Misdeliver(b, msg)
  BY DEF ksyscall_msg_send, Refused
<1>4. /\ full \in Box /\ full.size = box.size + 1
      /\ mbox_queue_out(full) \in Box /\ mbox_queue_out(full).size = box.size
      /\ full.head = box.head
  <2>1. full.head = box.head
    BY <1>1 DEF mbox_queue_in, Box
  <2> QED BY <1>3, <2>1, PassThrough DEF TimesInv, MboxInv
<1>5. Keeps(full, put, list)
  BY <1>1, <1>2, <1>3, PutKeeps
<1>6. list \in Seq(Fields) /\ InOrder(list, next_pid, Seconds)
  BY <1>1, <1>2, InOrderSteps
<1>7. UNCHANGED <<next_pid, system_time>>
  BY <1>3 DEF Deposit, Deliver, Misdeliver, timeVars, tableVars
<1>8. put \in [Cells -> Fields]
  BY <1>1, <1>2
<1>9. mailboxes' = [mailboxes EXCEPT ![b] = full]
        \/ mailboxes' = [mailboxes EXCEPT ![b] = mbox_queue_out(full)]
  BY <1>3 DEF Deposit, Deliver, Misdeliver, Keep, Stray
<1>10. fields' = [fields EXCEPT ![b] = IF mailboxes'[b].size = box.size
                                       THEN [put EXCEPT ![box.head] = Cleared] ELSE put]
  BY DEF SendFields, TakenOut
<1>11. \A new : mailboxes' = [mailboxes EXCEPT ![b] = new] => mailboxes'[b] = new
  BY DEF TimesInv, MboxInv, MailInv, MboxTableOK
<1> HIDE DEF box, msg, full, put, list
<1>12. CASE mailboxes' = [mailboxes EXCEPT ![b] = full]
  <2>0. mailboxes'[b].size # box.size
    <3>1. box.size \in Nat
      BY <1>1 DEF box
    <3>2. mailboxes'[b].size = box.size + 1
      BY <1>4, <1>11, <1>12
    <3> QED BY <3>1, <3>2
  <2>1. fields' = [fields EXCEPT ![b] = put]
    BY <1>10, <2>0
  <2> QED BY <1>4, <1>5, <1>6, <1>7, <1>8, <1>12, <2>1, TimesOneBox
<1>13. CASE mailboxes' = [mailboxes EXCEPT ![b] = mbox_queue_out(full)]
  <2> DEFINE left == [put EXCEPT ![box.head] = Cleared]
  <2>1. fields' = [fields EXCEPT ![b] = left]
    BY <1>4, <1>10, <1>11, <1>13
  <2>2. full.size > 0
    BY <1>1, <1>4 DEF box
  <2>3. list # <<>> /\ Keeps(mbox_queue_out(full), left, Tail(list))
    BY <1>2, <1>4, <1>5, <1>6, <1>8, <2>2, GetKeeps
  <2>4. Tail(list) \in Seq(Fields) /\ InOrder(Tail(list), next_pid, Seconds)
    BY <1>2, <1>6, <2>3, InOrderSteps
  <2>5. left \in [Cells -> Fields]
    BY <1>2, <1>8
  <2> HIDE DEF left
  <2> QED BY <1>4, <1>7, <1>13, <2>1, <2>3, <2>4, <2>5, TimesOneBox
<1> QED
  BY <1>9, <1>12, <1>13

LEMMA TimesRecv ==
  ASSUME RoomOnly, TimesInv, NEW b \in MboxArgs \cap Mboxes,
         ksyscall_msg_recv(b), RecvFields(b)
  PROVE  fields' \in [Mboxes -> [Cells -> Fields]] /\ MailChronological'
<1>1. /\ mailboxes[b] \in Box /\ mailboxes[b].size \in Nat
      /\ fields[b] \in [Cells -> Fields]
      /\ FieldsIn(b) \in Seq(Fields)
      /\ Keeps(mailboxes[b], fields[b], FieldsIn(b))
      /\ InOrder(FieldsIn(b), next_pid, Seconds)
  BY FieldsListed
<1>2. next_pid \in Nat /\ Seconds \in Nat /\ Cleared \in Fields
  <2>1. next_pid \in Nat /\ Seconds \in Nat
    BY SecondsGrow DEF TimesInv, MboxInv, MailInv, KernelInv, TableTypeOK, Seconds
  <2>2. Cleared \in Fields
    BY DEF Cleared, Fields
  <2> QED BY <2>1, <2>2
<1>3. (Await(b) \/ Take(b)) /\ UNCHANGED <<next_pid, system_time>>
  BY DEF ksyscall_msg_recv, Refused, timeVars, tableVars
<1>4. CASE Await(b)
  <2>1. mailboxes[b].size = 0 /\ mailboxes' = [mailboxes EXCEPT ![b] = mailboxes[b]]
    BY <1>4 DEF Await, TimesInv, MboxInv, MailInv, MboxTableOK
  <2>2. fields' = [fields EXCEPT ![b] = fields[b]]
    BY <2>1 DEF RecvFields
  <2> QED BY <1>1, <1>3, <2>1, <2>2, TimesOneBox
<1>5. CASE Take(b)
  <2> DEFINE box == mbox_queue_out(mailboxes[b])
             left == [fields[b] EXCEPT ![mailboxes[b].head] = Cleared]
  <2>1. mailboxes[b].size > 0 /\ mailboxes' = [mailboxes EXCEPT ![b] = box]
    BY <1>1, <1>5 DEF Take
  <2>2. fields' = [fields EXCEPT ![b] = left]
    <3>1. mailboxes[b].size # 0
      BY <1>1, <2>1
    <3> QED BY <3>1 DEF RecvFields, TakenOut
  <2>3. box \in Box
    BY <1>1, <2>1, BoxTypes
  <2>4. FieldsIn(b) # <<>> /\ Keeps(box, left, Tail(FieldsIn(b)))
    BY <1>1, <1>2, <2>1, GetKeeps
  <2>5. /\ Tail(FieldsIn(b)) \in Seq(Fields)
        /\ InOrder(Tail(FieldsIn(b)), next_pid, Seconds)
    BY <1>1, <1>2, <2>4, InOrderSteps
  <2>6. left \in [Cells -> Fields]
    BY <1>1, <1>2
  <2> HIDE DEF box, left
  <2> QED BY <1>3, <2>1, <2>2, <2>3, <2>4, <2>5, <2>6, TimesOneBox
<1> QED BY <1>3, <1>4, <1>5

LEMMA TimesInitInv == TimesInit => TimesInv
<1> SUFFICES ASSUME TimesInit
             PROVE  TimesInv
  OBVIOUS
<1>1. MboxInv
  BY MboxInitInv DEF TimesInit
<1>2. \A b \in Mboxes : mailboxes[b].size = 0
  BY DEF TimesInit, MboxInit, EmptyBox
<1>3. fields \in [Mboxes -> [Cells -> Fields]]
  BY DEF TimesInit, Cleared, Fields
<1> QED BY <1>1, <1>2, <1>3 DEF TimesInv, MailChronological

LEMMA TimesNextInv ==
  ASSUME RoomOnly, TimesInv, [TimesNext]_mailSysVars
  PROVE  TimesInv'
<1>1. [MboxNext]_mboxSysVars
  BY DEF TimesNext, MboxNext, mailSysVars, mboxSysVars
<1>2. MboxInv'
  BY <1>1, MboxNextInv DEF TimesInv
<1>3. CASE [ProcNext]_procVars /\ UNCHANGED <<mboxVars, fields>>
  BY <1>2, <1>3, TimesProcStep DEF TimesInv
<1>4. CASE \E b \in MboxArgs \cap Mboxes : ksyscall_msg_send(b) /\ SendFields(b)
  BY <1>2, <1>4, TimesSend DEF TimesInv
<1>5. CASE \E b \in MboxArgs \cap Mboxes : ksyscall_msg_recv(b) /\ RecvFields(b)
  BY <1>2, <1>5, TimesRecv DEF TimesInv
<1>6. CASE \E b \in MboxArgs \ Mboxes :
             (ksyscall_msg_send(b) \/ ksyscall_msg_recv(b)) /\ UNCHANGED fields
  <2>1. UNCHANGED <<timeVars, tableVars, mboxVars, fields>>
    BY <1>6 DEF ksyscall_msg_send, ksyscall_msg_recv, Refused
  <2>2. MailChronological'
    BY <2>1 DEF TimesInv, MailChronological, FieldsIn, Seconds, timeVars, tableVars, mboxVars
  <2> QED BY <1>2, <2>1, <2>2 DEF TimesInv
<1>7. CASE UNCHANGED mailSysVars
  BY <1>3, <1>7 DEF mailSysVars
<1> QED BY <1>3, <1>4, <1>5, <1>6, <1>7 DEF TimesNext

LEMMA TimesSpecInv == RoomOnly => (TimesSpec => []TimesInv)
<1> SUFFICES ASSUME RoomOnly PROVE TimesSpec => []TimesInv
  OBVIOUS
<1>1. TimesInit => TimesInv
  BY TimesInitInv
<1>2. TimesInv /\ [TimesNext]_mailSysVars => TimesInv'
  BY TimesNextInv
<1> QED BY <1>1, <1>2, PTL DEF TimesSpec

-----------------------------------------------------------------------------
(* The theorems.                                                           *)

(* Mailboxes, wait queues and buffers keep their types, and of the panics  *)
(* of the model only those of MboxFaults are left (KMbox, MboxTypeOK).     *)
THEOREM MboxTypesKept == MboxSpec => []MboxTypeOK
<1>1. MboxInv => MboxTypeOK
  BY DEF MboxInv, MailInv, MboxTypeOK
<1>2. QED
  BY <1>1, MboxSpecInv, PTL

(* Nobody waits at a mailbox that holds a message, even when senders run   *)
(* rings over (msg_send delivers at once, msg_recv looks before it waits), *)
(* except where a send has taken a receiver that exited for one that waits.*)
THEOREM MailNotIdle == MboxSpec => []NoIdleMail
<1>1. MboxInv => NoIdleMail
  BY DEF MboxInv, MailInv
<1>2. QED
  BY <1>1, MboxSpecInv, PTL

(* A live process waits exactly while a mailbox lists it, in one wait      *)
(* queue and once, whichever receivers are made to exit while they wait.   *)
THEOREM NoReceiverLost == MboxSpec => []ReceiversExact
<1>1. MboxInv => ReceiversExact
  <2> SUFFICES ASSUME MailInv, Unheard = {}, NEW i \in Live
               PROVE  state[i] = "WAITING" <=> \E b \in Mboxes : pid[i] \in Range(recv_queue[b])
    BY DEF MboxInv, MailInv, ReceiversExact, ReceiversKnown
  <2>1. i \in Waiting <=> state[i] = "WAITING"
    BY DEF Live, Waiting
  <2>2. QED
    BY <2>1 DEF Unheard, MailInv, ReceiversKnown
<1>2. QED
  BY <1>1, MboxSpecInv, PTL

(* While senders leave full mailboxes alone, a ring holds the messages     *)
(* that were sent and not taken out, in the order of sending, however it   *)
(* has wrapped (mbox.c, ksyscall.c).                                       *)
THEOREM MailKept == RoomOnly /\ MboxSpec => []MailIntact
<1> SUFFICES ASSUME RoomOnly
             PROVE  MboxSpec => []MailIntact
  OBVIOUS
<1>1. MboxInv => MailIntact
  BY RingsHold DEF MboxInv
<1>2. QED
  BY <1>1, MboxSpecInv, PTL

(* While senders leave full mailboxes alone, the fields of the messages in *)
(* a ring, read from head to tail, are in the order of sending: no cell in *)
(* use is overwritten, cleared or passed over (msg_send, mbox.c).          *)
THEOREM FieldsTravelAlong == RoomOnly /\ TimesSpec => []MailChronological
<1> SUFFICES ASSUME RoomOnly PROVE TimesSpec => []MailChronological
  OBVIOUS
<1>1. TimesInv => MailChronological
  BY DEF TimesInv
<1> QED BY <1>1, TimesSpecInv, PTL

-----------------------------------------------------------------------------
(* KMbox implements the mailboxes of module MailService.  The id at a      *)
(* place of a wait queue stands for the process that has it, or for nobody *)
(* once that process has exited (WhoHas).                                  *)

Places(q) == [k \in DOMAIN q |-> WhoHas(q[k])]
Somebody == Entries \cup {NULL}

MappedMail == [b \in Mboxes |-> MboxContents(mailboxes[b])]
MappedAwaiting == [b \in Mboxes |-> Places(recv_queue[b])]

LEMMA PlacesType ==
  ASSUME NEW q \in Seq(Nat)
  PROVE  /\ Places(q) \in Seq(Somebody)
         /\ Len(Places(q)) = Len(q) /\ Len(q) \in Nat
         /\ DOMAIN q = 1 .. Len(q)
         /\ \A k \in 1 .. Len(q) : Places(q)[k] = WhoHas(q[k])
<1>1. DOMAIN q = 1 .. Len(q) /\ Len(q) \in Nat
  BY LenProperties
<1>2. Places(q) = [k \in 1 .. Len(q) |-> WhoHas(q[k])]
  BY <1>1 DEF Places
<1>3. \A p : WhoHas(p) \in Somebody
  <2> SUFFICES ASSUME NEW p PROVE WhoHas(p) \in Somebody
    OBVIOUS
  <2>1. CASE EntriesOf(p) = {}
    BY <2>1 DEF WhoHas, Somebody
  <2>2. CASE EntriesOf(p) # {}
    BY <2>2 DEF WhoHas, Somebody, EntriesOf, EntryOf
  <2> QED BY <2>1, <2>2
<1> QED BY <1>1, <1>2, <1>3

LEMMA PlacesAppend ==
  ASSUME NEW q \in Seq(Nat), NEW p \in Nat
  PROVE  Places(Append(q, p)) = Append(Places(q), WhoHas(p))
<1>1. Places(q) \in Seq(Somebody) /\ Len(Places(q)) = Len(q)
  BY PlacesType
<1>2. DOMAIN Append(q, p) = 1 .. Len(q) + 1
  OBVIOUS
<1>3. Places(Append(q, p)) = [k \in 1 .. Len(q) + 1 |-> WhoHas(Append(q, p)[k])]
  BY <1>2 DEF Places
<1>4. Append(Places(q), WhoHas(p)) =
        [k \in 1 .. Len(q) + 1 |-> IF k <= Len(q) THEN WhoHas(q[k]) ELSE WhoHas(p)]
  BY <1>1 DEF Places
<1> QED BY <1>3, <1>4

LEMMA PlacesHeadTail ==
  ASSUME NEW q \in Seq(Nat), q # <<>>
  PROVE  /\ Places(q) # <<>>
         /\ Head(Places(q)) = WhoHas(Head(q))
         /\ Tail(Places(q)) = Places(Tail(q))
<1>1. Places(q) \in Seq(Somebody) /\ Len(Places(q)) = Len(q) /\ Len(q) \in Nat \ {0}
  BY PlacesType
<1>2. Tail(q) \in Seq(Nat) /\ Len(Tail(q)) = Len(q) - 1
  BY <1>1
<1>3. Places(Tail(q)) = [k \in 1 .. Len(q) - 1 |-> WhoHas(q[k + 1])]
  BY <1>1, <1>2 DEF Places
<1>4. Tail(Places(q)) = [k \in 1 .. Len(q) - 1 |-> WhoHas(q[k + 1])]
  BY <1>1 DEF Places
<1> QED BY <1>1, <1>3, <1>4 DEF Places

(* Who has an id of a wait queue: the one that waits with it, if any.      *)
LEMMA WhoHasId ==
  MailInv => \A p \in Nat \ {0} : /\ WhoHas(p) \in Live \cup {NULL}
                                  /\ \A i \in Entries : WhoHas(p) = i <=> pid[i] = p
<1> SUFFICES ASSUME MailInv, NEW p \in Nat \ {0}
             PROVE  /\ WhoHas(p) \in Live \cup {NULL}
                    /\ \A i \in Entries : WhoHas(p) = i <=> pid[i] = p
  OBVIOUS
<1>1. \A i \in Entries : pid[i] = p => i \in Live
  BY DEF MailInv, KernelInv, TableInv, ClearedHaveNoPid
<1>2. \A i \in Live : EntriesOf(pid[i]) = {i} /\ EntryOf(pid[i]) = i
  BY Lookup, EntryFound DEF MailInv, KernelInv, TableInv
<1>3. CASE \E i \in Entries : pid[i] = p
  <2>1. PICK i \in Live : pid[i] = p /\ WhoHas(p) = i
    BY <1>1, <1>2, <1>3 DEF WhoHas
  <2>2. \A j \in Entries : pid[j] = p => j = i
    BY <1>1, <1>2, <2>1
  <2> QED BY <2>1, <2>2
<1>4. CASE \A i \in Entries : pid[i] # p
  <2>1. EntriesOf(p) = {}
    BY <1>4 DEF EntriesOf, IsEntryOf
  <2>2. WhoHas(p) = NULL /\ NULL \notin Entries
    BY <2>1, EntriesFinite DEF WhoHas
  <2> QED BY <1>4, <2>2
<1> QED BY <1>3, <1>4

LEMMA WhoHasIdNext ==
  MailInv' => \A p \in Nat \ {0} : /\ WhoHas(p)' \in Live' \cup {NULL}
                                   /\ \A i \in Entries : WhoHas(p)' = i <=> pid'[i] = p
<1>1. (MailInv => \A p \in Nat \ {0} : /\ WhoHas(p) \in Live \cup {NULL}
                                       /\ \A i \in Entries : WhoHas(p) = i <=> pid[i] = p)'
  BY WhoHasId, PTL
<1> QED BY <1>1

(* The places of a step that changes no id.                                *)
LEMMA SamePlaces ==
  ASSUME UNCHANGED pid
  PROVE  MappedAwaiting' = [b \in Mboxes |-> Places(recv_queue'[b])]
  BY DEF MappedAwaiting, Places, WhoHas, EntriesOf, EntryOf, IsEntryOf

LEMMA LinesAlone ==
  ASSUME UNCHANGED <<pid, recv_queue>>
  PROVE  UNCHANGED MappedAwaiting
<1>1. UNCHANGED pid
  OBVIOUS
<1> QED BY <1>1, SamePlaces DEF MappedAwaiting

LEMMA OneMailLine ==
  ASSUME MailInv, UNCHANGED pid, NEW b \in Mboxes, NEW q,
         recv_queue' = [recv_queue EXCEPT ![b] = q]
  PROVE  MappedAwaiting' = [MappedAwaiting EXCEPT ![b] = Places(q)]
<1>1. recv_queue'[b] = q /\ \A c \in Mboxes \ {b} : recv_queue'[c] = recv_queue[c]
  BY DEF MailInv, MboxTableOK
<1>2. MappedAwaiting' = [c \in Mboxes |-> Places(recv_queue'[c])]
  BY SamePlaces
<1>3. MappedAwaiting = [c \in Mboxes |-> Places(recv_queue[c])]
  BY DEF MappedAwaiting
<1> HIDE DEF MappedAwaiting
<1> QED BY <1>1, <1>2, <1>3

(* What the mailboxes hold is what is pending.                             *)
LEMMA MailIsPending == RoomOnly /\ MailInv => MappedMail = pending
<1> SUFFICES ASSUME RoomOnly, MailInv PROVE MappedMail = pending
  OBVIOUS
<1>1. \A b \in Mboxes : MboxContents(mailboxes[b]) = pending[b]
  BY RingsHold DEF MailIntact
<1>2. pending = [b \in Mboxes |-> pending[b]]
  BY DEF MailInv, MboxTableOK
<1> QED BY <1>1, <1>2 DEF MappedMail

LEMMA MailIsPendingNext == RoomOnly /\ MailInv' => MappedMail' = pending'
<1>1. (RoomOnly /\ MailInv => MappedMail = pending)'
  BY MailIsPending, PTL
<1> QED BY <1>1

(* The round robin under the mailboxes is the one under the scheduler.     *)
LEMMA SameTurns ==
  /\ Mail!Tick <=> Scheduler!Tick
  /\ Mail!Query <=> Scheduler!Query
  /\ Mail!Yield <=> Scheduler!Yield
  /\ \A n : Mail!Sleep(n) <=> Scheduler!Sleep(n)
  /\ \A t : Mail!Exec(t) <=> Scheduler!Exec(t)
  /\ Mail!Exit <=> Scheduler!Exit
  /\ Mail!Halt <=> Scheduler!Halt
  /\ Mail!Schedule <=> Scheduler!Schedule
  /\ Mail!RRInit <=> Scheduler!RRInit
<1>1. Mail!Tick <=> Scheduler!Tick
  BY DEF Mail!Tick, Scheduler!Tick
<1>2. Mail!Query <=> Scheduler!Query
  BY DEF Mail!Query, Mail!Call, Scheduler!Query, Scheduler!Call
<1>3. Mail!Yield <=> Scheduler!Yield
  BY DEF Mail!Yield, Mail!Call, Mail!MakeReady,
         Scheduler!Yield, Scheduler!Call, Scheduler!MakeReady
<1>4. \A n : Mail!Sleep(n) <=> Scheduler!Sleep(n)
  BY DEF Mail!Sleep, Mail!Call, Scheduler!Sleep, Scheduler!Call
<1>5. \A t : Mail!Exec(t) <=> Scheduler!Exec(t)
  BY DEF Mail!Exec, Mail!Entered, Mail!MakeReady,
         Scheduler!Exec, Scheduler!Entered, Scheduler!MakeReady
<1>6. Mail!Exit <=> Scheduler!Exit
  BY DEF Mail!Exit, Mail!Entered, Scheduler!Exit, Scheduler!Entered
<1>7. Mail!Halt <=> Scheduler!Halt
  BY DEF Mail!Halt, Mail!Entered, Scheduler!Halt, Scheduler!Entered
<1>8. Mail!Schedule <=> Scheduler!Schedule
  <2>1. \A S : Mail!Cardinality(S) = Scheduler!Cardinality(S)
    BY DEF Mail!Cardinality, Scheduler!Cardinality
  <2>2. \A s : Mail!IsInjective(s) <=> Scheduler!IsInjective(s)
    BY DEF Mail!IsInjective, Scheduler!IsInjective
  <2>3. \A S : Mail!Orders(S) = Scheduler!Orders(S)
    BY <2>1, <2>2 DEF Mail!Orders, Scheduler!Orders
  <2>4. Mail!Woken = Scheduler!Woken
    BY DEF Mail!Woken, Scheduler!Woken
  <2>5. (Mail!Runs <=> Scheduler!Runs) /\ (Mail!Expired <=> Scheduler!Expired)
    BY DEF Mail!Runs, Scheduler!Runs, Mail!Expired, Scheduler!Expired
  <2>6. Mail!Preempted = Scheduler!Preempted
    BY <2>5 DEF Mail!Preempted, Scheduler!Preempted
  <2>7. \A t : Mail!Give(t) <=> Scheduler!Give(t)
    BY <2>4, <2>5 DEF Mail!Give, Scheduler!Give
  <2> QED BY <2>3, <2>4, <2>5, <2>6, <2>7 DEF Mail!Schedule, Scheduler!Schedule
<1>9. Mail!RRInit <=> Scheduler!RRInit
  BY DEF Mail!RRInit, Scheduler!RRInit
<1> QED BY <1>1, <1>2, <1>3, <1>4, <1>5, <1>6, <1>7, <1>8, <1>9

\* A step of the mailboxes and lines, or none.
NobodyQuits == RoundRobinStep /\ ~Scheduler!Exit /\ UNCHANGED <<MappedMail, MappedAwaiting, inbox>>
MailServiceStep ==
  \/ \E b \in Mboxes, msg \in 1 .. MaxSent : Mail!Send(b, msg)
  \/ \E b \in Mboxes : Mail!Recv(b)
  \/ Mail!Quit
  \/ NobodyQuits

(* Only an exit ends a wait but by a message.                              *)
LEMMA OnlyExitEnds ==
  ASSUME KernelInv, RoundRobinStep, ~Scheduler!Exit, current \in Waiting
  PROVE  state'[current] # "NONE"
<1>1. state \in [Entries -> States] /\ current \in Entries /\ state[current] = "WAITING"
  BY DEF KernelInv, TableTypeOK, Waiting
<1>2. CASE UNCHANGED state
  BY <1>1, <1>2
<1>3. CASE \E t \in Entries, st \in {"RUNNING", "SLEEPING"} : state' = [state EXCEPT ![t] = st]
  BY <1>1, <1>3
<1>4. CASE Scheduler!Schedule
  BY <1>1, <1>4 DEF Scheduler!Schedule, Scheduler!Give
<1>5. CASE Scheduler!Tick \/ Scheduler!Query \/ Scheduler!Halt \/ UNCHANGED MappedVars
  BY <1>2, <1>5 DEF Scheduler!Tick, Scheduler!Query, Scheduler!Halt, MappedVars
<1>6. CASE Scheduler!Yield
  BY <1>1, <1>3, <1>6 DEF Scheduler!Yield, Scheduler!MakeReady
<1>7. CASE \E secs \in SleepSecs : Scheduler!Sleep(IF secs > 0 THEN CLK_TCK * secs ELSE 0)
  BY <1>1, <1>3, <1>7 DEF Scheduler!Sleep
<1>8. CASE \E t \in Entries : Scheduler!Exec(t)
  BY <1>3, <1>8 DEF Scheduler!Exec, Scheduler!MakeReady
<1> QED BY <1>4, <1>5, <1>6, <1>7, <1>8 DEF RoundRobinStep

(* The steps of module KProc leave mail and lines alone, but for an exit,  *)
(* which leaves the place of the caller empty if it stands in a line.      *)
LEMMA OthersMap ==
  ASSUME MailInv, MailInv', [ProcNext]_procVars, UNCHANGED mboxVars
  PROVE  MailServiceStep
<1>1. KernelInv /\ IdleAlone /\ KernelInv'
  BY DEF MailInv
<1>2. RoundRobinStep
  BY <1>1, ProcMaps
<1>3. UNCHANGED MappedMail /\ UNCHANGED inbox /\ UNCHANGED recv_queue
  BY DEF MappedMail, mboxVars
<1>4. /\ \/ Waiting' = Waiting
         \/ /\ current \in Waiting
            /\ Waiting' = Waiting \ {current}
            /\ Live' = Live \ {current}
      /\ \A i \in Waiting' : pid'[i] = pid[i]
  BY <1>1, WaitersStay
<1>5. ASSUME NEW b \in Mboxes, NEW p \in Range(recv_queue[b])
      PROVE  /\ WhoHas(p) \in Waiting \cup {NULL}
             /\ WhoHas(p)' = IF WhoHas(p) \in Waiting' THEN WhoHas(p) ELSE NULL
  <2>1. p \in Nat \ {0} /\ p < next_pid
    <3>1. recv_queue[b] \in Seq(Nat)
      BY MailTypes
    <3>2. p \in Nat
      BY <3>1, RangeFacts
    <3> QED BY <3>2 DEF MailInv, ReceiversKnown
  <2>2. /\ WhoHas(p) \in Live \cup {NULL}
        /\ \A i \in Entries : WhoHas(p) = i <=> pid[i] = p
    BY <2>1, WhoHasId
  <2>3. /\ WhoHas(p)' \in Live' \cup {NULL}
        /\ \A i \in Entries : WhoHas(p)' = i <=> pid'[i] = p
    BY <2>1, WhoHasIdNext
  <2>4. \A i \in Live : pid[i] = p => i \in Waiting
    BY DEF MailInv, ReceiversKnown
  <2>5. \A i \in Live' : pid'[i] = p => i \in Live /\ pid[i] = p /\ i \in Waiting'
    <3>1. \A i \in Live' : \/ i \in Live /\ pid'[i] = pid[i]
                           \/ pid'[i] = next_pid /\ next_pid' > next_pid
      BY <1>1, IdsStay
    <3>2. next_pid \in Nat
      BY <1>1 DEF KernelInv, TableTypeOK
    <3>3. \A i \in Live' : pid'[i] = p => i \in Waiting'
      BY <1>3 DEF MailInv, ReceiversKnown
    <3> QED BY <2>1, <3>1, <3>2, <3>3
  <2>6. /\ Live \subseteq Entries /\ Live' \subseteq Entries /\ NULL \notin Entries
        /\ Waiting \subseteq Entries /\ Waiting' \subseteq Entries
    BY EntriesFinite DEF Live, Waiting
  <2>7. WhoHas(p) \in Waiting \cup {NULL}
    BY <2>2, <2>4, <2>6
  <2>8. CASE WhoHas(p) \in Waiting'
    <3>1. pid[WhoHas(p)] = p /\ pid'[WhoHas(p)] = p
      BY <1>4, <2>2, <2>6, <2>8
    <3> QED BY <2>3, <2>6, <2>7, <2>8, <3>1
  <2>9. CASE WhoHas(p) \notin Waiting'
    <3>1. ASSUME WhoHas(p)' # NULL PROVE FALSE
      <4>1. PICK i \in Live' : WhoHas(p)' = i
        BY <2>3, <3>1
      <4>2. pid[i] = p /\ i \in Waiting'
        BY <2>3, <2>5, <2>6, <4>1
      <4>3. WhoHas(p) = i
        BY <2>2, <2>6, <4>2
      <4> QED BY <2>9, <4>2, <4>3
    <3> QED BY <2>7, <2>9, <3>1
  <2> QED BY <2>7, <2>8, <2>9
<1>6. ASSUME NEW b \in Mboxes, NEW k \in DOMAIN recv_queue[b]
      PROVE  recv_queue[b][k] \in Range(recv_queue[b])
  <2>1. recv_queue[b] \in Seq(Nat)
    BY MailTypes
  <2> QED BY <2>1, RangeFacts
<1>7. MappedAwaiting = [b \in Mboxes |-> [k \in DOMAIN recv_queue[b] |-> WhoHas(recv_queue[b][k])]]
  BY DEF MappedAwaiting, Places
<1>8. MappedAwaiting' = [b \in Mboxes |-> [k \in DOMAIN recv_queue[b] |-> WhoHas(recv_queue[b][k])']]
  BY <1>3 DEF MappedAwaiting, Places
<1>9. ASSUME NEW b \in Mboxes, NEW k \in DOMAIN recv_queue[b]
       PROVE  /\ WhoHas(recv_queue[b][k]) \in Waiting \cup {NULL}
              /\ WhoHas(recv_queue[b][k])' =
                   IF WhoHas(recv_queue[b][k]) \in Waiting' THEN WhoHas(recv_queue[b][k]) ELSE NULL
  <2>1. PICK p : p = recv_queue[b][k]
    OBVIOUS
  <2>2. p \in Range(recv_queue[b]) /\ recv_queue'[b][k] = p
    BY <1>3, <1>6, <2>1
  <2>3. WhoHas(recv_queue[b][k])' = WhoHas(p)'
    BY <2>2 DEF WhoHas, EntriesOf, EntryOf, IsEntryOf
  <2> QED BY <1>5, <2>1, <2>2, <2>3
<1>10. CASE Scheduler!Exit
  <2>1. /\ current \in Entries /\ current # NULL
        /\ state' = [state EXCEPT ![current] = "NONE"]
    BY <1>1, <1>10 DEF Scheduler!Exit, KernelInv, TableTypeOK
  <2>2. Waiting' = Waiting \ {current}
    BY <1>1, <2>1 DEF Waiting, KernelInv, TableTypeOK
  <2>3. ASSUME NEW b \in Mboxes, NEW k \in DOMAIN recv_queue[b]
        PROVE  WhoHas(recv_queue[b][k])' =
                 IF WhoHas(recv_queue[b][k]) = current THEN NULL ELSE WhoHas(recv_queue[b][k])
    BY <1>6, <1>9, <2>2
  <2>4. MappedAwaiting' = [b \in Mboxes |-> [k \in DOMAIN MappedAwaiting[b] |->
            IF MappedAwaiting[b][k] = current THEN NULL ELSE MappedAwaiting[b][k]]]
    <3>1. \A b \in Mboxes : /\ DOMAIN MappedAwaiting[b] = DOMAIN recv_queue[b]
                            /\ \A k \in DOMAIN recv_queue[b] :
                                 MappedAwaiting[b][k] = WhoHas(recv_queue[b][k])
      BY <1>7
    <3> HIDE DEF MappedAwaiting
    <3> QED BY <1>8, <2>3, <3>1
  <2>5. Mail!Exit
    BY <1>10, SameTurns
  <2>6. Mail!Quit
    BY <1>3, <2>4, <2>5 DEF Mail!Quit, MappedMail, MappedAwaiting, Places
  <2> QED BY <2>6 DEF MailServiceStep
<1>11. CASE ~Scheduler!Exit
  <2>1. Waiting' = Waiting
    <3> SUFFICES ASSUME current \in Waiting, Live' = Live \ {current} PROVE FALSE
      BY <1>4
    <3>1. state'[current] # "NONE" /\ current \in Entries
      BY <1>1, <1>2, <1>11, OnlyExitEnds DEF Waiting
    <3> QED BY <3>1 DEF Live
  <2>2. ASSUME NEW b \in Mboxes, NEW k \in DOMAIN recv_queue[b]
        PROVE  WhoHas(recv_queue[b][k])' = WhoHas(recv_queue[b][k])
    BY <1>6, <1>9, <2>1
  <2>3. UNCHANGED MappedAwaiting
    <3> HIDE DEF MappedAwaiting
    <3> QED BY <1>7, <1>8, <2>2
  <2> QED BY <1>2, <1>3, <1>11, <2>3 DEF MailServiceStep, NobodyQuits
<1> QED BY <1>10, <1>11

(* What every call of a process is.                                        *)
LEMMA MailCallMaps ==
  ASSUME KernelInv, SystemCall, kpc' = "keyboard"
  PROVE  Mail!Call
<1>1. MappedPhase = "user" /\ current # 0 /\ MappedPhase' = "kernel"
  BY CallMaps DEF MappedPhase
<1> QED BY <1>1 DEF Mail!Call, MappedPhase

LEMMA StaysIsNoExit ==
  ASSUME KernelInv, UNCHANGED current
  PROVE  ~Scheduler!Exit
  BY DEF Scheduler!Exit

(* A call that is refused, or that halts the kernel.                       *)
LEMMA MailRefusalMaps ==
  ASSUME KernelInv, SystemCall, kpc' \in {"keyboard", "halted"},
         UNCHANGED <<timeVars, tableVars, schedVars, inbox>>,
         UNCHANGED MappedMail, UNCHANGED MappedAwaiting
  PROVE  MailServiceStep
<1>1. ~Scheduler!Exit
  BY StaysIsNoExit DEF schedVars
<1>2. CASE kpc' = "keyboard"
  BY <1>1, <1>2, QueryMaps DEF MailServiceStep, NobodyQuits, RoundRobinStep
<1>3. CASE kpc' = "halted"
  <2>1. InCall("keyboard")
    BY DEF InCall
  <2> QED BY <1>1, <1>3, <2>1, HaltMaps DEF MailServiceStep, NobodyQuits, RoundRobinStep
<1> QED BY <1>2, <1>3

LEMMA RefusedMaps ==
  ASSUME MailInv, SystemCall, NEW b, Refused(b)
  PROVE  MailServiceStep
<1>1. /\ kpc' = "keyboard" /\ UNCHANGED <<timeVars, tableVars, schedVars, inbox>>
      /\ UNCHANGED <<pid, recv_queue, mailboxes>>
  BY DEF Refused, tableVars, mboxVars
<1>2. UNCHANGED MappedAwaiting
  BY <1>1, LinesAlone
<1>3. UNCHANGED MappedMail
  BY <1>1 DEF MappedMail
<1> QED BY <1>1, <1>2, <1>3, MailRefusalMaps DEF MailInv

(* The room of a mailbox.                                                  *)
LEMMA RoomMaps ==
  ASSUME RoomOnly, MailInv, NEW b \in Mboxes, mailboxes[b].size < MBOX_SIZE
  PROVE  Len(MappedMail[b]) < MBOX_SIZE
<1>1. Len(pending[b]) = mailboxes[b].size
  BY MailTypes
<1> QED BY <1>1, MailIsPending

(* The message stays in the mailbox.                                       *)
LEMMA DepositMaps ==
  ASSUME RoomOnly, MailInv, MailInv', SystemCall, NEW b \in Mboxes,
         NEW msg \in 1 .. MaxSent, mailboxes[b].size < MBOX_SIZE, Deposit(b, msg)
  PROVE  Mail!Send(b, msg)
<1>1. /\ recv_queue[b] = <<>>
      /\ pending' = [pending EXCEPT ![b] = Append(@, msg)]
      /\ kpc' = "keyboard"
      /\ UNCHANGED <<timeVars, tableVars, schedVars, recv_queue, inbox>>
  BY DEF Deposit
<1>2. UNCHANGED <<pid, state, current, active_time, run_queue>>
  BY <1>1 DEF tableVars, schedVars
<1>3. UNCHANGED MappedAwaiting
  BY <1>1, <1>2, LinesAlone
<1>4. MappedAwaiting[b] = <<>>
  BY <1>1, EmptyFacts DEF MappedAwaiting, Places
<1>5. MappedMail' = [MappedMail EXCEPT ![b] = Append(@, msg)]
  BY <1>1, MailIsPending, MailIsPendingNext
<1>6. UNCHANGED MappedQueue /\ UNCHANGED MappedSleep
  BY <1>1, QueueStays, SleepStays DEF timeVars, tableVars, schedVars
<1>7. Mail!Call
  BY <1>1, MailCallMaps DEF MailInv
<1>8. Len(MappedMail[b]) < MBOX_SIZE
  BY RoomMaps
<1>9. Mail!Deposit(b, msg)
  BY <1>1, <1>2, <1>3, <1>4, <1>5, <1>6
     DEF Mail!Deposit, MappedMail, MappedAwaiting, Places, MappedQueue, EntriesIn
<1> QED
  BY <1>2, <1>6, <1>7, <1>8, <1>9 DEF Mail!Send, MappedMail, MappedSleep

(* The oldest message goes to the caller.                                  *)
LEMMA TakeMaps ==
  ASSUME RoomOnly, MailInv, MailInv', SystemCall, NEW b \in Mboxes, Take(b),
         UNCHANGED <<timeVars, tableVars, current, active_time, wake_time, sent, strayed>>
  PROVE  Mail!Recv(b)
<1>1. /\ mailboxes[b].size # 0
      /\ inbox' = [inbox EXCEPT ![current] = mbox_front(mailboxes[b])]
      /\ pending' = [pending EXCEPT ![b] = Tail(@)]
      /\ kpc' = "keyboard"
      /\ UNCHANGED <<run_queue, state, recv_queue>>
  BY DEF Take
<1>2. UNCHANGED <<pid, system_time>>
  BY DEF tableVars, timeVars
<1>3. UNCHANGED MappedAwaiting
  BY <1>1, <1>2, LinesAlone
<1>4. pending[b] # <<>> /\ mbox_front(mailboxes[b]) = Head(pending[b])
  <2>1. /\ mailboxes[b] \in Box /\ mailboxes[b].size \in Nat
        /\ pending[b] \in Seq(1 .. MaxSent)
    BY MailTypes
  <2>2. mailboxes[b].size > 0
    BY <1>1, <2>1
  <2>3. Holds(mailboxes[b], pending[b])
    BY DEF MailInv, RingsExact
  <2> QED BY <2>1, <2>2, <2>3, GetHolds
<1>5. /\ MappedMail' = [MappedMail EXCEPT ![b] = Tail(@)]
      /\ MappedMail[b] # <<>>
      /\ inbox' = [inbox EXCEPT ![current] = Head(MappedMail[b])]
  BY <1>1, <1>4, MailIsPending, MailIsPendingNext
<1>6. UNCHANGED MappedQueue /\ UNCHANGED MappedSleep
  BY <1>1, <1>2, QueueStays, SleepStays
<1>7. Mail!Call
  BY <1>1, MailCallMaps DEF MailInv
<1>8. Mail!Take(b)
  BY <1>1, <1>3, <1>5 DEF Mail!Take, MappedMail, MappedAwaiting, Places
<1>9. Mail!Recv(b)
  BY <1>6, <1>7, <1>8 DEF Mail!Recv, MappedQueue, MappedSleep, EntriesIn
<1> QED BY <1>9

(* The caller gets in line, or finds the wait queue full.                  *)
LEMMA AwaitMaps ==
  ASSUME RoomOnly, MailInv, MailInv', SystemCall, NEW b \in Mboxes, Await(b),
         UNCHANGED <<timeVars, tableVars, current, active_time, wake_time, sent, strayed>>
  PROVE  MailServiceStep
<1> DEFINE q == recv_queue[b]
<1>1. /\ current \in Live \ {0} /\ current \in Entries /\ current \notin Waiting
      /\ pid[current] \in Nat /\ pid[current] \notin Range(run_queue) /\ 0 < pid[current]
  BY CallerNotListed
<1>2. /\ mailboxes[b].size = 0
      /\ recv_queue' = [recv_queue EXCEPT ![b] = QueueIn(q, pid[current])]
      /\ Continue("keyboard", ~QueueIsFull(q), WaitQueueFull)
      /\ IF QueueIsFull(q)
         THEN UNCHANGED <<state, run_queue>>
         ELSE /\ state' = [state EXCEPT ![current] = "WAITING"]
              /\ run_queue' = SchedulerRemove(run_queue, pid[current])
      /\ UNCHANGED <<mailboxes, inbox, pending>>
  BY DEF Await
<1>3. UNCHANGED <<pid, system_time>> /\ UNCHANGED MappedMail
  BY <1>2 DEF tableVars, timeVars, MappedMail
<1>4. CASE QueueIsFull(q)
  <2>1. recv_queue' = recv_queue
    <3>1. QueueIn(q, pid[current]) = q
      BY <1>4 DEF QueueIn, QueueIsFull
    <3> QED BY <1>2, <3>1 DEF MailInv, MboxTableOK
  <2>2. kpc' = "halted" /\ UNCHANGED <<timeVars, tableVars, schedVars, inbox>>
    BY <1>2, <1>4 DEF Continue, schedVars
  <2>3. UNCHANGED MappedAwaiting
    BY <1>3, <2>1, LinesAlone
  <2> QED BY <1>3, <2>2, <2>3, MailRefusalMaps DEF MailInv
<1>5. CASE ~QueueIsFull(q)
  <2>1. /\ recv_queue' = [recv_queue EXCEPT ![b] = Append(q, pid[current])]
        /\ state' = [state EXCEPT ![current] = "WAITING"]
        /\ UNCHANGED <<run_queue, pid>>
        /\ kpc' = "keyboard"
    <3>1. QueueIn(q, pid[current]) = Append(q, pid[current])
      BY <1>5 DEF QueueIn, QueueIsFull
    <3>2. SchedulerRemove(run_queue, pid[current]) = run_queue
      BY <1>1, RemoveAbsent DEF MailInv
    <3> QED BY <1>2, <1>3, <1>5, <3>1, <3>2 DEF Continue
  <2>2. MappedAwaiting' = [MappedAwaiting EXCEPT ![b] = Append(@, current)]
    <3>1. MappedAwaiting' = [MappedAwaiting EXCEPT ![b] = Places(Append(q, pid[current]))]
      BY <2>1, OneMailLine
    <3>2. q \in Seq(Nat)
      BY MailTypes
    <3>3. WhoHas(pid[current]) = current
      BY <1>1, WhoHasId
    <3>4. Places(Append(q, pid[current])) = Append(Places(q), current)
      BY <1>1, <3>2, <3>3, PlacesAppend
    <3>5. MappedAwaiting[b] = Places(q)
      BY DEF MappedAwaiting
    <3> QED BY <3>1, <3>4, <3>5
  <2>3. MappedMail[b] = <<>>
    <3>1. pending[b] \in Seq(1 .. MaxSent) /\ Len(pending[b]) = 0
      BY <1>2, MailTypes
    <3>2. pending[b] = <<>>
      BY <3>1, EmptySeq
    <3> QED BY <3>2, MailIsPending
  <2>4. UNCHANGED MappedQueue
    BY <2>1, QueueStays
  <2>5. UNCHANGED MappedSleep
    <3>1. state[current] # "SLEEPING" /\ state \in [Entries -> States]
      BY CallerFacts DEF MailInv, KernelInv, TableTypeOK
    <3> QED BY <1>1, <1>3, <2>1, <3>1 DEF MappedSleep, TicksUntil
  <2>6. Mail!Call
    BY <2>1, MailCallMaps DEF MailInv
  <2>7. Mail!Await(b)
    BY <1>2, <1>3, <2>1, <2>2, <2>3 DEF Mail!Await, MappedMail, MappedAwaiting, Places
  <2>8. Mail!Recv(b)
    BY <2>4, <2>5, <2>6, <2>7 DEF Mail!Recv, MappedQueue, MappedSleep, EntriesIn
  <2> QED BY <2>8 DEF MailServiceStep
<1> QED BY <1>4, <1>5

(* A send that finds somebody in line.                                     *)
LEMMA LineMoves ==
  ASSUME RoomOnly, MailInv, NEW b \in Mboxes, sent[b] < MaxSent,
         mailboxes[b].size < MBOX_SIZE, recv_queue[b] # <<>>,
         recv_queue' = [recv_queue EXCEPT ![b] = Tail(@)], UNCHANGED pid
  PROVE  /\ MappedAwaiting[b] # <<>>
         /\ Head(MappedAwaiting[b]) = WhoHas(Head(recv_queue[b]))
         /\ MappedAwaiting' = [MappedAwaiting EXCEPT ![b] = Tail(@)]
         /\ mbox_front(mbox_queue_in(mailboxes[b], sent[b] + 1)) =
              Head(Append(MappedMail[b], sent[b] + 1))
<1>1. MappedAwaiting[b] = Places(recv_queue[b])
  BY DEF MappedAwaiting
<1>2. recv_queue[b] \in Seq(Nat)
  BY MailTypes
<1>3. /\ Places(recv_queue[b]) # <<>>
      /\ Head(Places(recv_queue[b])) = WhoHas(Head(recv_queue[b]))
      /\ Tail(Places(recv_queue[b])) = Places(Tail(recv_queue[b]))
  BY <1>2, PlacesHeadTail
<1>4. MappedAwaiting' = [MappedAwaiting EXCEPT ![b] = Places(Tail(recv_queue[b]))]
  BY OneMailLine
<1>5. MappedMail[b] = pending[b]
  BY MailIsPending
<1>6. mbox_front(mbox_queue_in(mailboxes[b], sent[b] + 1)) = Head(Append(pending[b], sent[b] + 1))
  BY PassThrough
<1> QED BY <1>1, <1>3, <1>4, <1>5, <1>6

(* The message ends the wait of the first in line.                         *)
LEMMA DeliverMaps ==
  ASSUME RoomOnly, MailInv, MailInv', SystemCall, NEW b \in Mboxes, sent[b] < MaxSent,
         mailboxes[b].size < MBOX_SIZE, NEW msg, msg = sent[b] + 1, Deliver(b, msg)
  PROVE  Mail!Send(b, msg)
<1> DEFINE p == Head(recv_queue[b])
           front == mbox_front(mbox_queue_in(mailboxes[b], msg))
<1>1. /\ recv_queue[b] # <<>>
      /\ recv_queue' = [recv_queue EXCEPT ![b] = Tail(@)]
      /\ pending' = [pending EXCEPT ![b] = Tail(Append(@, msg))]
      /\ UNCHANGED <<timeVars, tableVars, current, active_time, wake_time>>
  BY DEF Deliver
<1>2. UNCHANGED <<pid, system_time>>
  BY <1>1 DEF tableVars, timeVars
<1>3. PICK i \in EntriesOf(p) : HandMessage(b, msg, i)
  BY DEF Deliver
<1>4. /\ i \in Waiting /\ i \in Entries /\ i \in Live /\ state[i] = "WAITING" /\ pid[i] = p
      /\ pid[i] \in Nat /\ Len(run_queue) < QUEUE_SIZE /\ Len(run_queue) \in Nat
  <2>1. i \in Waiting /\ pid[i] = p
    BY <1>1, FirstReceiver
  <2> QED BY <2>1, WaiterFacts, LenProperties
          DEF Waiting, Live, MailInv, KernelInv, TableTypeOK
<1>5. /\ run_queue' = Append(run_queue, pid[i])
      /\ state' = [state EXCEPT ![i] = "RUNNING"]
      /\ inbox' = [inbox EXCEPT ![i] = front]
      /\ kpc' = "keyboard"
  BY <1>3, <1>4, ProcAssumption DEF HandMessage, QueueIn, QueueIsFull, Continue
<1> HIDE DEF p, front
<1>6. /\ MappedAwaiting[b] # <<>>
      /\ Head(MappedAwaiting[b]) = WhoHas(p)
      /\ MappedAwaiting' = [MappedAwaiting EXCEPT ![b] = Tail(@)]
      /\ front = Head(Append(MappedMail[b], msg))
  BY <1>1, <1>2, LineMoves DEF p, front
<1>7. WhoHas(p) = i /\ i # NULL
  <2>1. 0 < p /\ p \in Nat
    BY <1>1, <1>4, FirstReceiver DEF p, MailInv, ReceiversKnown
  <2>2. NULL \notin Entries
    BY EntriesFinite
  <2> QED BY <1>4, <2>1, <2>2, WhoHasId
<1>8. MappedMail' = [MappedMail EXCEPT ![b] = Tail(Append(@, msg))]
  BY <1>1, MailIsPending, MailIsPendingNext
<1>9. MappedQueue' = Append(MappedQueue, i)
  BY <1>2, <1>4, <1>5, QueueGrows DEF MailInv
<1>10. UNCHANGED MappedSleep
  BY <1>1, <1>2, <1>4, <1>5 DEF MappedSleep, TicksUntil
<1>11. Mail!Call
  BY <1>5, MailCallMaps DEF MailInv
<1>12. Mail!MakeReady(i)
  BY <1>5, <1>9 DEF Mail!MakeReady, MappedQueue, EntriesIn
<1>13. Mail!HandOver(b, msg)
  <2>1. /\ MappedAwaiting[b] # <<>> /\ Head(MappedAwaiting[b]) = i
        /\ inbox' = [inbox EXCEPT ![i] = Head(Append(MappedMail[b], msg))]
    BY <1>5, <1>6, <1>7
  <2> QED BY <1>6, <1>7, <1>8, <1>12, <2>1
          DEF Mail!HandOver, Mail!Oldest, MappedMail, MappedAwaiting, Places
<1>14. Len(MappedMail[b]) < MBOX_SIZE
  BY RoomMaps
<1> QED BY <1>1, <1>10, <1>11, <1>13, <1>14 DEF Mail!Send, MappedMail, MappedSleep

(* The first in line has exited.                                           *)
LEMMA MisdeliverMaps ==
  ASSUME RoomOnly, MailInv, MailInv', SystemCall, NEW b \in Mboxes, sent[b] < MaxSent,
         mailboxes[b].size < MBOX_SIZE, NEW msg, msg = sent[b] + 1, Misdeliver(b, msg)
  PROVE  Mail!Send(b, msg)
<1> DEFINE p == Head(recv_queue[b])
           front == mbox_front(mbox_queue_in(mailboxes[b], msg))
<1>1. /\ recv_queue[b] # <<>> /\ EntriesOf(p) = {}
      /\ recv_queue' = [recv_queue EXCEPT ![b] = Tail(@)]
      /\ kpc' = "keyboard"
      /\ UNCHANGED <<timeVars, tableVars, schedVars>>
  BY DEF Misdeliver
<1>2. UNCHANGED <<pid, state, current, active_time, run_queue>>
  BY <1>1 DEF tableVars, schedVars
<1>3. \/ /\ pending' = [pending EXCEPT ![b] = Append(@, msg)]
         /\ UNCHANGED inbox
      \/ /\ pending' = [pending EXCEPT ![b] = Tail(Append(@, msg))]
         /\ \/ UNCHANGED inbox
            \/ /\ state[LastEntry] # "NONE"
               /\ inbox' = [inbox EXCEPT ![LastEntry] = front]
  BY DEF Misdeliver, Keep, Stray
<1>4. WhoHas(p) = NULL
  BY <1>1 DEF WhoHas
<1> HIDE DEF p, front
<1>5. /\ MappedAwaiting[b] # <<>>
      /\ Head(MappedAwaiting[b]) = NULL
      /\ MappedAwaiting' = [MappedAwaiting EXCEPT ![b] = Tail(@)]
      /\ front = Head(Append(MappedMail[b], msg))
  BY <1>1, <1>2, <1>4, LineMoves DEF p, front
<1>6. \/ /\ MappedMail' = [MappedMail EXCEPT ![b] = Append(@, msg)]
         /\ UNCHANGED inbox
      \/ /\ MappedMail' = [MappedMail EXCEPT ![b] = Tail(Append(@, msg))]
         /\ \/ UNCHANGED inbox
            \/ /\ state[LastEntry] # "NONE"
               /\ inbox' = [inbox EXCEPT ![LastEntry] = Head(Append(MappedMail[b], msg))]
  BY <1>3, <1>5, MailIsPending, MailIsPendingNext
<1>7. UNCHANGED MappedQueue /\ UNCHANGED MappedSleep
  BY <1>1, QueueStays, SleepStays DEF timeVars, tableVars, schedVars
<1>8. Mail!Call
  BY <1>1, MailCallMaps DEF MailInv
<1>9. Mail!Misdeliver(b, msg)
  BY <1>2, <1>5, <1>6, <1>7
     DEF Mail!Misdeliver, Mail!Oldest, MappedMail, MappedAwaiting, Places, MappedQueue, EntriesIn
<1>10. Len(MappedMail[b]) < MBOX_SIZE
  BY RoomMaps
<1> QED BY <1>2, <1>7, <1>8, <1>9, <1>10 DEF Mail!Send, MappedMail, MappedSleep

-----------------------------------------------------------------------------
(* The refinement.                                                         *)

LEMMA MailNextMaps ==
  ASSUME RoomOnly, MailInv, MailInv', [MboxNext]_mboxSysVars
  PROVE  MailServiceStep
<1>1. CASE [ProcNext]_procVars /\ UNCHANGED mboxVars
  BY <1>1, OthersMap
<1>2. CASE \E b \in MboxArgs : ksyscall_msg_send(b)
  <2>1. PICK b \in MboxArgs : ksyscall_msg_send(b)
    BY <1>2
  <2>2. SystemCall
    BY <2>1 DEF ksyscall_msg_send
  <2>3. CASE Refused(b)
    BY <2>2, <2>3, RefusedMaps
  <2>4. CASE ~Refused(b)
    <3>1. PICK msg : msg = sent[b] + 1
      OBVIOUS
    <3>2. /\ b \in Mboxes /\ sent[b] < MaxSent /\ mailboxes[b].size < MBOX_SIZE
          /\ Deposit(b, msg) \/ Deliver(b, msg) \/ Misdeliver(b, msg)
      BY <2>1, <2>4, <3>1 DEF ksyscall_msg_send
    <3>3. msg \in 1 .. MaxSent
      BY <3>1, <3>2, PassThrough DEF MailInv
    <3>4. Mail!Send(b, msg)
      BY <2>2, <3>1, <3>2, <3>3, DepositMaps, DeliverMaps, MisdeliverMaps
    <3> QED BY <3>2, <3>3, <3>4 DEF MailServiceStep
  <2> QED BY <2>3, <2>4
<1>3. CASE \E b \in MboxArgs : ksyscall_msg_recv(b)
  <2>1. PICK b \in MboxArgs : ksyscall_msg_recv(b)
    BY <1>3
  <2>2. SystemCall
    BY <2>1 DEF ksyscall_msg_recv
  <2>3. CASE Refused(b)
    BY <2>2, <2>3, RefusedMaps
  <2>4. CASE ~Refused(b)
    <3>1. /\ b \in Mboxes
          /\ Await(b) \/ Take(b)
          /\ UNCHANGED <<timeVars, tableVars, current, active_time, wake_time, sent, strayed>>
      BY <2>1, <2>4 DEF ksyscall_msg_recv
    <3>2. CASE Await(b)
      BY <2>2, <3>1, <3>2, AwaitMaps
    <3>3. CASE Take(b)
      BY <2>2, <3>1, <3>3, TakeMaps DEF MailServiceStep
    <3> QED BY <3>1, <3>2, <3>3
  <2> QED BY <2>3, <2>4
<1>4. CASE UNCHANGED mboxSysVars
  BY <1>1, <1>4 DEF mboxSysVars
<1> QED BY <1>1, <1>2, <1>3, <1>4 DEF MboxNext

LEMMA MailServiceStepAllowed == MailServiceStep => [Mail!MailNext]_(Mail!mailServiceVars)
<1> SUFFICES ASSUME MailServiceStep PROVE [Mail!MailNext]_(Mail!mailServiceVars)
  OBVIOUS
<1>1. CASE \/ \E b \in Mboxes, msg \in 1 .. MaxSent : Mail!Send(b, msg)
           \/ \E b \in Mboxes : Mail!Recv(b)
           \/ Mail!Quit
  BY <1>1 DEF Mail!MailNext
<1>2. CASE NobodyQuits
  <2>0. UNCHANGED <<MappedMail, MappedAwaiting, inbox>>
    BY <1>2 DEF NobodyQuits
  <2>1. CASE \E secs \in SleepSecs : Scheduler!Sleep(IF secs > 0 THEN CLK_TCK * secs ELSE 0)
    <3>1. \E secs \in SleepSecs : Mail!Sleep(IF secs > 0 THEN CLK_TCK * secs ELSE 0)
      BY <2>1, SameTurns
    <3> QED BY <2>0, <3>1 DEF Mail!MailNext, MappedMail, MappedAwaiting, Places
  <2>2. CASE \E t \in Entries : Scheduler!Exec(t)
    <3>1. \E t \in Entries : Mail!Exec(t)
      BY <2>2, SameTurns
    <3> QED BY <2>0, <3>1 DEF Mail!MailNext, MappedMail, MappedAwaiting, Places
  <2>3. CASE UNCHANGED MappedVars
    BY <2>0, <2>3
       DEF MappedVars, MappedQueue, MappedSleep, MappedPhase, MappedMail, MappedAwaiting, Places,
           EntriesIn, Mail!rrVars, Mail!mailServiceVars
  <2>4. CASE \/ Scheduler!Tick \/ Scheduler!Query \/ Scheduler!Yield
             \/ Scheduler!Halt \/ Scheduler!Schedule
    <3>1. Mail!Tick \/ Mail!Query \/ Mail!Yield \/ Mail!Halt \/ Mail!Schedule
      BY <2>4, SameTurns
    <3> QED BY <2>0, <3>1 DEF Mail!MailNext, MappedMail, MappedAwaiting, Places
  <2> QED BY <1>2, <2>1, <2>2, <2>3, <2>4 DEF NobodyQuits, RoundRobinStep
<1> QED BY <1>1, <1>2 DEF MailServiceStep

LEMMA MailAtBoot == MboxInit => Mail!MailInit
<1> SUFFICES ASSUME MboxInit PROVE Mail!MailInit
  OBVIOUS
<1>1. Mail!RRInit
  BY BootMaps, SameTurns DEF MboxInit
<1>2. /\ \A b \in Mboxes : recv_queue[b] = <<>> /\ mailboxes[b] = EmptyBox
      /\ inbox = [i \in Entries |-> NoMessage]
  BY DEF MboxInit
<1>3. MappedAwaiting = [b \in Mboxes |-> <<>>]
  BY <1>2 DEF MappedAwaiting, Places
<1>4. MappedMail = [b \in Mboxes |-> <<>>]
  <2>1. MboxContents(EmptyBox) = <<>>
    <3>1. EmptyBox.size = 0
      BY DEF EmptyBox
    <3> QED BY <3>1 DEF MboxContents
  <2> QED BY <1>2, <2>1 DEF MappedMail
<1> QED
  BY <1>1, <1>2, <1>3, <1>4 DEF Mail!MailInit, MappedMail, MappedAwaiting, Places

(* While senders leave full mailboxes alone, ksyscall.c and mbox.c serve   *)
(* the places in the line of a mailbox in the order of the calls, each     *)
(* with the oldest message.  The place of a receiver that was made to exit *)
(* is served like any other: the send it uses up wakes none of those who   *)
(* wait behind, and its message may be lost (KMbox, MailServes).           *)
THEOREM MailServedInLine == RoomOnly /\ MboxSpec => MailServes
<1> SUFFICES ASSUME RoomOnly PROVE MboxSpec => MailServes
  OBVIOUS
<1>1. MboxInit => MboxInv /\ Mail!MailInit
  BY MboxInitInv, MailAtBoot
<1>2. MboxInv /\ [MboxNext]_mboxSysVars => MboxInv'
  BY MboxNextInv
<1>3. MboxInv /\ MboxInv' /\ [MboxNext]_mboxSysVars => [Mail!MailNext]_(Mail!mailServiceVars)
  BY MailNextMaps, MailServiceStepAllowed DEF MboxInv
<1> QED
  BY <1>1, <1>2, <1>3, PTL DEF MboxSpec, MailServes, Mail!MailSpec

=============================================================================
