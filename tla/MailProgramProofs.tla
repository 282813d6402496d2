-------------------------- MODULE MailProgramProofs --------------------------
(***************************************************************************)
(* Proof that the words of a producer reach the consumers each once and in *)
(* the order in which they were sent, for any number of producers,         *)
(* consumers and mailboxes, whoever the key 'x' kills.  What a mailbox     *)
(* holds of a producer are the words behind those that left it, received   *)
(* or lost, in order, and all of them are in the one mailbox it uses       *)
(* (WordsIn, OneBox, SenderInv).  A send puts a word in and may take the   *)
(* oldest one out (WordPut, WordTaken), whoever is served.  Of the         *)
(* scheduler nearly nothing is needed.                                     *)
(***************************************************************************)
EXTENDS MailPrograms, SeqFacts

-----------------------------------------------------------------------------
(* The inductive invariant.                                                *)

Starts == 1 .. MaxStarts

States == {"NONE", "RUNNING", "ACTIVE", "SLEEPING", "WAITING"}

TurnInv ==
  /\ status \in [Tasks -> States]
  /\ queue \in Seq(Tasks)
  /\ running \in Tasks \cup {NULL}
  /\ phase = "user" => running # NULL

\* An id is never given out again, and an entry without a process has none.
ProcessInv ==
  /\ pc \in [Tasks -> Labels]
  /\ box \in [Tasks -> Boxes]
  /\ starts \in 0 .. MaxStarts
  /\ id \in [Tasks -> 0 .. starts]
  /\ sequence \in [Tasks -> 0 .. WORD_COUNT]
  /\ \A t \in Tasks : status[t] = "NONE" => id[t] = 0
  /\ \A t \in Tasks : id[t] = 0 => sequence[t] = 0 /\ pc[t] \notin {"send", "pause"}
  /\ \A t \in Tasks : pc[t] = "send" => sequence[t] < WORD_COUNT
  /\ \A t, u \in Tasks : id[t] = id[u] /\ id[t] # 0 => t = u

\* The words of each producer that have left its mailbox.
Gone == [p \in Starts |-> received[p] + lost[p]]

MailTypes ==
  /\ mail \in [Boxes -> Seq(Messages)]
  /\ awaiting \in [Boxes -> Seq(Tasks \cup {NULL})]
  /\ got \in [Tasks -> Messages \cup {NoMail}]
  /\ received \in [Starts -> Nat]
  /\ lost \in [Starts -> Nat]
  /\ \A p \in Starts : p > starts => Gone[p] = 0
  /\ \A t \in Tasks : got[t] # NoMail => got[t][2] <= Gone[got[t][1]]

\* The word at place i of a mailbox that holds q is the next one to leave of
\* its producer, or the one before it stands further in front.  G counts
\* the words that have left.
WordsIn(q, G) ==
  \A i \in 1 .. Len(q) :
    LET p == q[i][1]
        n == q[i][2]
    IN  /\ p <= starts /\ G[p] < n
        /\ G[p] + 1 < n => \E j \in 1 .. i - 1 : q[j] = <<p, n - 1>>
        /\ \A j \in 1 .. i - 1 : q[j][1] = p => q[j][2] < n

\* M is what the mailboxes hold.
OneBox(M) ==
  \A b, c \in Boxes : \A i \in 1 .. Len(M[b]), j \in 1 .. Len(M[c]) :
    M[b][i][1] = M[c][j][1] => b = c

\* What has not left of the s words of the live producer p, which uses
\* mailbox c, is in there.
SenderInv(p, s, c, M, G) ==
  /\ G[p] <= s
  /\ G[p] < s => \E i \in 1 .. Len(M[c]) : M[c][i] = <<p, s>>
  /\ \A b \in Boxes : \A i \in 1 .. Len(M[b]) :
       M[b][i][1] = p => b = c /\ M[b][i][2] <= s

Words(M, G, S) ==
  /\ \A b \in Boxes : WordsIn(M[b], G)
  /\ OneBox(M)
  /\ \A t \in Tasks : id[t] # 0 => SenderInv(id[t], S[t], box[t], M, G)

WordInv == Words(mail, Gone, sequence)

\* What a send and a receive make of them.
Put(M, b, m) == [M EXCEPT ![b] = Append(@, m)]
Drop(M, b) == [M EXCEPT ![b] = Tail(@)]
OneMore(G, p) == [G EXCEPT ![p] = @ + 1]

\* Word w is the next one of its producer to leave.
NextOut(w, G) ==
  w \in Messages /\ w[1] \in Starts /\ w[1] <= starts /\ w[2] = G[w[1]] + 1

\* The next word of the program in entry t.
NextWord(t) == <<id[t], sequence[t] + 1>>

MailProgInv == TurnInv /\ ProcessInv /\ MailTypes /\ WordInv

-----------------------------------------------------------------------------
(* The scheduler.                                                          *)

\* No process vanishes but the running one.
NobodyLeaves == \A t \in Tasks : status'[t] = "NONE" => status[t] = "NONE"

LEMMA SchedulerKeeps ==
  ASSUME TurnInv, Schedule
  PROVE  TurnInv' /\ NobodyLeaves
<1> PICK woken \in Orders(Woken) :
      LET ready == queue \o Preempted \o woken
      IN  \/ Runs /\ ~Expired /\ Give(running) /\ queue' = ready
          \/ /\ ~Runs \/ Expired
             /\ \/ ready = <<>> /\ Give(Idle) /\ queue' = ready
                \/ ready # <<>> /\ Give(Head(ready)) /\ queue' = Tail(ready)
  BY DEF Schedule
<1> PICK ready : ready = queue \o Preempted \o woken
  OBVIOUS
<1>1. woken \in Seq(Tasks)
  <2>1. IsFiniteSet(Woken) /\ Woken \subseteq Tasks
    BY RoundRobinAssumption, FS_Subset DEF Woken
  <2>2. Cardinality(Woken) \in Nat
    BY <2>1, FS_CardinalityType
  <2>3. woken \in [1 .. Cardinality(Woken) -> Woken]
    BY DEF Orders
  <2>4. woken \in Seq(Woken)
    BY <2>2, <2>3, SeqDef, SMTT(40)
  <2> QED BY <2>1, <2>4, SeqMonotonic
<1>2. Preempted \in Seq(Tasks)
  BY DEF Preempted, TurnInv, Expired, Runs
<1>3. ready \in Seq(Tasks)
  BY <1>1, <1>2, ConcatProperties DEF TurnInv
<1>4. PICK t \in Tasks : Give(t) /\ queue' \in Seq(Tasks)
  <2>1. CASE Runs /\ ~Expired /\ Give(running) /\ queue' = ready
    BY <1>3, <2>1 DEF Runs, TurnInv
  <2>2. CASE Give(Idle) /\ queue' = ready
    BY <1>3, <2>2, RoundRobinAssumption
  <2>3. CASE ready # <<>> /\ Give(Head(ready)) /\ queue' = Tail(ready)
    BY <1>3, <2>3, HeadTailProperties
  <2> QED BY <2>1, <2>2, <2>3
<1>5. status' \in [Tasks -> States] /\ NobodyLeaves /\ running' = t
  BY <1>4 DEF Give, TurnInv, States, NobodyLeaves
<1> QED BY <1>4, <1>5, RoundRobinAssumption DEF TurnInv

LEMMA MadeReady ==
  ASSUME TurnInv, NEW t \in Tasks, MakeReady(t), running' \in {running, NULL}, phase' # "user"
  PROVE  TurnInv' /\ NobodyLeaves /\ status'[t] # "NONE"
  BY AppendProperties DEF TurnInv, MakeReady, States, NobodyLeaves

LEMMA TurnKept ==
  ASSUME TurnInv, queue' = queue, running' \in {running, NULL},
         phase' = "user" => phase = "user" /\ running' = running,
         status' = status \/ \E st \in States : status' = [status EXCEPT ![running] = st]
  PROVE  TurnInv'
  BY DEF TurnInv

-----------------------------------------------------------------------------
(* The programs.                                                           *)

(* A step of the running program changes where it stands.                  *)
LEMMA ProgramGoes ==
  ASSUME ProcessInv, NobodyLeaves, running \in Tasks, NEW label \in Labels,
         pc' = [pc EXCEPT ![running] = label],
         label \in {"send", "pause"} => id[running] # 0,
         label = "send" => sequence'[running] < WORD_COUNT,
         sequence' = sequence \/ (id[running] # 0 /\ sequence[running] < WORD_COUNT
                                  /\ sequence' = [sequence EXCEPT ![running] = @ + 1]),
         UNCHANGED <<box, id, starts>>
  PROVE  ProcessInv'
<1>1. sequence' \in [Tasks -> 0 .. WORD_COUNT]
  <2>1. CASE sequence' = sequence
    BY <2>1 DEF ProcessInv
  <2>2. CASE sequence[running] < WORD_COUNT /\ sequence' = [sequence EXCEPT ![running] = @ + 1]
    <3>1. sequence \in [Tasks -> 0 .. WORD_COUNT] /\ WORD_COUNT \in Nat
      BY MailProgramsAssumption DEF ProcessInv
    <3>2. sequence[running] + 1 \in 0 .. WORD_COUNT
      BY <2>2, <3>1
    <3> QED BY <2>2, <3>1, <3>2
  <2> QED BY <2>1, <2>2
<1>2. \A t \in Tasks \ {running} : sequence'[t] = sequence[t] /\ pc'[t] = pc[t]
  BY DEF ProcessInv
<1>3. pc' \in [Tasks -> Labels] /\ pc'[running] = label
  BY DEF ProcessInv
<1>4. \A t \in Tasks : id'[t] = 0 => sequence'[t] = 0 /\ pc'[t] \notin {"send", "pause"}
  BY <1>2, <1>3 DEF ProcessInv
<1>5. \A t \in Tasks : pc'[t] = "send" => sequence'[t] < WORD_COUNT
  BY <1>2, <1>3 DEF ProcessInv
<1>6. \A t \in Tasks : status'[t] = "NONE" => id'[t] = 0
  BY DEF ProcessInv, NobodyLeaves
<1> QED BY <1>1, <1>3, <1>4, <1>5, <1>6 DEF ProcessInv

LEMMA ProgramStays ==
  ASSUME ProcessInv, NobodyLeaves, UNCHANGED mailProgVars
  PROVE  ProcessInv'
  BY DEF ProcessInv, NobodyLeaves, mailProgVars

LEMMA ProgramEnds ==
  ASSUME ProcessInv, NEW t \in Tasks, Discard(t), starts' = starts,
         \A u \in Tasks : status'[u] = "NONE" => u = t \/ status[u] = "NONE"
  PROVE  ProcessInv'
<1>1. (CHOOSE b \in Boxes : TRUE) \in Boxes
  BY MailProgramsAssumption
<1>2. "none" \in Labels
  BY DEF Labels
<1> QED BY <1>1, <1>2, MailProgramsAssumption DEF ProcessInv, Discard

(* The next id is free.                                                    *)
LEMMA ProgramBegins ==
  ASSUME ProcessInv, NobodyLeaves, starts < MaxStarts, starts' = starts + 1,
         NEW t \in Tasks, NEW label \in {"send", "receive"}, NEW b \in Boxes,
         status[t] = "NONE", status'[t] # "NONE",
         pc' = [pc EXCEPT ![t] = label], box' = [box EXCEPT ![t] = b],
         id' = [id EXCEPT ![t] = starts + 1], sequence' = sequence
  PROVE  ProcessInv'
<1>1. starts \in Nat /\ starts' \in 0 .. MaxStarts
  BY MailProgramsAssumption DEF ProcessInv
<1>2. label \in Labels
  BY DEF Labels
<1>3. sequence[t] = 0 /\ id[t] = 0
  BY DEF ProcessInv
<1>4. \A u \in Tasks : id[u] \in 0 .. starts
  BY DEF ProcessInv
<1>5. \A u \in Tasks : id'[u] = IF u = t THEN starts + 1 ELSE id[u]
  BY DEF ProcessInv
<1>6. id' \in [Tasks -> 0 .. starts']
  <2>1. \A u \in Tasks : id'[u] \in 0 .. starts'
    BY <1>1, <1>4, <1>5
  <2> QED BY <2>1 DEF ProcessInv
<1>7. \A u, v \in Tasks : id'[u] = id'[v] /\ id'[u] # 0 => u = v
  <2> SUFFICES ASSUME NEW u \in Tasks, NEW v \in Tasks, id'[u] = id'[v], id'[u] # 0
               PROVE  u = v
    OBVIOUS
  <2>1. (u = t <=> v = t)
    BY <1>1, <1>4, <1>5
  <2>2. CASE u = t
    BY <2>1, <2>2
  <2>3. CASE u # t
    BY <1>5, <2>1, <2>3 DEF ProcessInv
  <2> QED BY <2>2, <2>3
<1>8. \A u \in Tasks : status'[u] = "NONE" => id'[u] = 0
  BY <1>5 DEF ProcessInv, NobodyLeaves
<1>9. pc' \in [Tasks -> Labels] /\ box' \in [Tasks -> Boxes]
  BY <1>2 DEF ProcessInv
<1>10. \A u \in Tasks : /\ id'[u] = 0 => sequence'[u] = 0 /\ pc'[u] \notin {"send", "pause"}
                        /\ pc'[u] = "send" => sequence'[u] < WORD_COUNT
  BY <1>1, <1>3, <1>5, MailProgramsAssumption DEF ProcessInv
<1> QED BY <1>1, <1>6, <1>7, <1>8, <1>9, <1>10 DEF ProcessInv

-----------------------------------------------------------------------------
(* The mailboxes.                                                          *)

\* A process after a step is what it was, or has no words yet.
SameSenders ==
  \A t \in Tasks : id'[t] # 0 =>
    \/ id'[t] = id[t] /\ box'[t] = box[t] /\ sequence'[t] = sequence[t]
    \/ id'[t] > starts /\ id'[t] \in Starts /\ sequence'[t] = 0

(* What a mailbox holds are messages of programs that were started.        *)
LEMMA InTheMail ==
  ASSUME NEW q \in Seq(Messages)
  PROVE  /\ Len(q) \in Nat
         /\ \A i \in 1 .. Len(q) :
              q[i] = <<q[i][1], q[i][2]>> /\ q[i][1] \in Starts /\ q[i][2] \in Nat
<1>1. ASSUME NEW i \in 1 .. Len(q)
      PROVE  q[i] = <<q[i][1], q[i][2]>> /\ q[i][1] \in Starts /\ q[i][2] \in Nat
  <2>1. q[i] \in Messages
    BY ElementOfSeq
  <2> QED BY <2>1, MailProgramsAssumption DEF Starts
<1> QED BY <1>1, LenProperties

LEMMA GoneType ==
  ASSUME MailTypes
  PROVE  Gone \in [Starts -> Nat]
  BY DEF MailTypes, Gone

(* No message is sent or received.                                         *)
LEMMA MailRests ==
  ASSUME ProcessInv, MailTypes, WordInv, ProcessInv', SameSenders,
         UNCHANGED <<mail, got, received, lost>>, starts' >= starts,
         awaiting' \in [Boxes -> Seq(Tasks \cup {NULL})]
  PROVE  MailTypes' /\ WordInv'
<1>1. starts \in Nat /\ starts' \in Nat
  BY MailProgramsAssumption DEF ProcessInv
<1>2. Starts' = Starts /\ Starts \subseteq Nat
  BY MailProgramsAssumption DEF Starts
<1>3. Gone' = Gone
  BY <1>2 DEF Gone
<1>4. MailTypes'
  <2>1. \A p \in Starts : p > starts' => Gone[p] = 0
    BY <1>1, <1>2 DEF MailTypes
  <2> QED BY <1>2, <1>3, <2>1 DEF MailTypes
<1>5. ASSUME NEW b \in Boxes, NEW i \in 1 .. Len(mail[b])
      PROVE  mail[b][i][1] <= starts /\ mail[b][i][1] \in Nat
  <2>1. mail[b] \in Seq(Messages)
    BY DEF MailTypes
  <2>2. mail[b][i][1] \in Nat
    BY <1>2, <2>1, InTheMail
  <2> QED BY <2>2 DEF WordInv, Words, WordsIn
<1>6. ASSUME NEW b \in Boxes
      PROVE  WordsIn(mail[b], Gone)'
  <2>1. \A i \in 1 .. Len(mail[b]) : mail[b][i][1] <= starts'
    BY <1>1, <1>5
  <2>2. WordsIn(mail[b], Gone)
    BY DEF WordInv, Words
  <2> QED BY <1>3, <2>1, <2>2 DEF WordsIn
<1>7. ASSUME NEW t \in Tasks, id'[t] # 0
      PROVE  SenderInv(id[t], sequence[t], box[t], mail, Gone)'
  <2>1. CASE id'[t] = id[t] /\ box'[t] = box[t] /\ sequence'[t] = sequence[t]
    <3>1. SenderInv(id[t], sequence[t], box[t], mail, Gone)
      BY <1>7, <2>1 DEF WordInv, Words
    <3> QED BY <1>3, <2>1, <3>1 DEF SenderInv
  <2>2. CASE id'[t] > starts /\ id'[t] \in Starts /\ sequence'[t] = 0
    <3>1. Gone'[id'[t]] = 0
      BY <1>3, <2>2 DEF MailTypes
    <3>2. \A b \in Boxes : \A i \in 1 .. Len(mail[b]) : mail[b][i][1] # id'[t]
      BY <1>1, <1>2, <1>5, <2>2
    <3> QED BY <2>2, <3>1, <3>2 DEF SenderInv
  <2> QED BY <1>7, <2>1, <2>2 DEF SameSenders
<1>8. OneBox(mail)'
  BY DEF WordInv, Words, OneBox
<1> QED BY <1>4, <1>6, <1>7, <1>8 DEF WordInv, Words

(* A word is put behind those of the same producer that are still there.   *)
LEMMA WordPut ==
  ASSUME ProcessInv,
         NEW M \in [Boxes -> Seq(Messages)], NEW G \in [Starts -> Nat], Words(M, G, sequence),
         NEW r \in Tasks, id[r] # 0, NextWord(r) \in Messages
  PROVE  /\ Put(M, box[r], NextWord(r)) \in [Boxes -> Seq(Messages)]
         /\ Put(M, box[r], NextWord(r))[box[r]] # <<>>
         /\ OneMore(sequence, r) \in [Tasks -> Nat]
         /\ Words(Put(M, box[r], NextWord(r)), G, OneMore(sequence, r))
<1> PICK b : b = box[r]
  OBVIOUS
<1> PICK m : m = NextWord(r)
  OBVIOUS
<1> PICK N : N = [M EXCEPT ![b] = Append(@, m)]
  OBVIOUS
<1> PICK S : S = [sequence EXCEPT ![r] = @ + 1]
  OBVIOUS
<1>0. N = Put(M, box[r], NextWord(r)) /\ S = OneMore(sequence, r)
  BY DEF Put, OneMore
<1> PICK p : p = id[r]
  OBVIOUS
<1> PICK s : s = sequence[r]
  OBVIOUS
<1> PICK q : q = M[b]
  OBVIOUS
<1> PICK n : n = Len(q)
  OBVIOUS
<1>1. /\ b \in Boxes /\ p \in 0 .. starts /\ p \in Starts /\ starts \in Nat
      /\ s \in Nat /\ G[p] \in Nat /\ m \in Messages /\ m = <<p, s + 1>>
  <2>1. b \in Boxes /\ id[r] \in 0 .. starts /\ sequence[r] \in 0 .. WORD_COUNT
        /\ starts \in 0 .. MaxStarts /\ WORD_COUNT \in Nat /\ MaxStarts \in Nat
    BY MailProgramsAssumption DEF ProcessInv
  <2>2. p \in Starts
    BY <2>1 DEF Starts
  <2> QED BY <2>1, <2>2 DEF NextWord
<1>2. q \in Seq(Messages) /\ n \in Nat
  BY <1>1, InTheMail
<1>3. N[b] = Append(q, m) /\ \A c \in Boxes \ {b} : N[c] = M[c]
  BY <1>1
<1>4. /\ N[b] \in Seq(Messages) /\ Len(N[b]) = n + 1
      /\ \A i \in 1 .. n : N[b][i] = q[i]
      /\ N[b][n + 1] = m /\ m[1] = p /\ m[2] = s + 1
  BY <1>1, <1>2, <1>3, AppendProperties
<1>5. N \in [Boxes -> Seq(Messages)] /\ N[b] # <<>>
  <2>1. Len(N[b]) # 0
    BY <1>2, <1>4
  <2>2. N[b] # <<>>
    BY <1>4, <2>1, EmptySeq
  <2> QED BY <1>3, <1>4, <2>2
<1>6. SenderInv(p, s, b, M, G)
  BY DEF Words
<1>7. WordsIn(N[b], G)
  <2> SUFFICES ASSUME NEW i \in 1 .. n + 1
               PROVE  LET u == N[b][i][1]
                          k == N[b][i][2]
                      IN  /\ u <= starts /\ G[u] < k
                          /\ G[u] + 1 < k => \E j \in 1 .. i - 1 : N[b][j] = <<u, k - 1>>
                          /\ \A j \in 1 .. i - 1 : N[b][j][1] = u => N[b][j][2] < k
    BY <1>4 DEF WordsIn
  <2>1. \A j \in 1 .. i - 1 : j \in 1 .. n /\ N[b][j] = q[j]
    BY <1>2, <1>4
  <2>2. CASE i \in 1 .. n
    <3>1. N[b][i] = q[i]
      BY <1>4, <2>2
    <3> DEFINE u == q[i][1]
               k == q[i][2]
    <3>2. /\ u <= starts /\ G[u] < k
          /\ G[u] + 1 < k => \E j \in 1 .. i - 1 : q[j] = <<u, k - 1>>
          /\ \A j \in 1 .. i - 1 : q[j][1] = u => q[j][2] < k
      BY <1>1, <2>2 DEF Words, WordsIn
    <3> HIDE DEF u, k
    <3>3. G[u] + 1 < k => \E j \in 1 .. i - 1 : N[b][j] = <<u, k - 1>>
      BY <2>1, <3>2
    <3>4. \A j \in 1 .. i - 1 : N[b][j][1] = u => N[b][j][2] < k
      BY <2>1, <3>2
    <3> QED BY <3>1, <3>2, <3>3, <3>4 DEF u, k
  <2>3. CASE i = n + 1
    <3>1. N[b][i] = m
      BY <1>4, <2>3
    <3>2. G[p] < s + 1 /\ p <= starts
      BY <1>1, <1>6 DEF SenderInv
    <3>3. G[p] + 1 < s + 1 => \E j \in 1 .. i - 1 : N[b][j] = <<p, (s + 1) - 1>>
      <4> HAVE G[p] + 1 < s + 1
      <4>1. PICK j \in 1 .. n : q[j] = <<p, s>>
        BY <1>1, <1>6 DEF SenderInv
      <4>2. j \in 1 .. i - 1 /\ (s + 1) - 1 = s
        BY <1>1, <1>2, <2>3
      <4> QED BY <2>1, <4>1, <4>2
    <3>4. \A j \in 1 .. i - 1 : N[b][j][1] = p => N[b][j][2] < s + 1
      <4> SUFFICES ASSUME NEW j \in 1 .. i - 1, N[b][j][1] = p
                   PROVE  N[b][j][2] < s + 1
        OBVIOUS
      <4>1. j \in 1 .. n /\ q[j][1] = p
        BY <2>1
      <4>2. q[j][2] <= s /\ q[j][2] \in Nat
        BY <1>1, <1>6, <4>1, <1>2, InTheMail DEF SenderInv
      <4> QED BY <1>1, <2>1, <4>1, <4>2, SMTT(40)
    <3>5. N[b][i][1] = p /\ N[b][i][2] = s + 1
      BY <1>4, <3>1
    <3> DEFINE u == N[b][i][1]
               k == N[b][i][2]
    <3>6. u = p /\ k = s + 1
      BY <3>5
    <3> HIDE DEF u, k
    <3>7. /\ u <= starts /\ G[u] < k
          /\ G[u] + 1 < k => \E j \in 1 .. i - 1 : N[b][j] = <<u, k - 1>>
          /\ \A j \in 1 .. i - 1 : N[b][j][1] = u => N[b][j][2] < k
      BY <3>2, <3>3, <3>4, <3>6
    <3> QED BY <3>7 DEF u, k
  <2>4. i \in 1 .. n \/ i = n + 1
    BY <1>2, Z3T(40)
  <2> QED BY <2>2, <2>3, <2>4, Zenon
<1>8. ASSUME NEW c \in Boxes \ {b}
      PROVE  WordsIn(N[c], G)
  BY <1>3 DEF Words
<1>9. \A c \in Boxes : \A i \in 1 .. Len(N[c]) :
        \/ c = b /\ i = n + 1 /\ N[c][i] = m
        \/ i \in 1 .. Len(M[c]) /\ N[c][i] = M[c][i]
  BY <1>2, <1>3, <1>4
<1>10. \A c \in Boxes : \A i \in 1 .. Len(M[c]) :
         i \in 1 .. Len(N[c]) /\ N[c][i] = M[c][i]
  BY <1>2, <1>3, <1>4
<1>11. \A c \in Boxes : \A i \in 1 .. Len(M[c]) :
         M[c][i][1] = p => c = b /\ M[c][i][2] <= s
  BY <1>6 DEF SenderInv
<1>12. OneBox(N)
  <2> SUFFICES ASSUME NEW c \in Boxes, NEW d \in Boxes,
                      NEW i \in 1 .. Len(N[c]), NEW j \in 1 .. Len(N[d]),
                      N[c][i][1] = N[d][j][1]
               PROVE  c = d
    BY DEF OneBox
  <2> QED BY <1>4, <1>9, <1>11 DEF Words, OneBox
<1>13. ASSUME NEW t \in Tasks, id[t] # 0
       PROVE  SenderInv(id[t], S[t], box[t], N, G)
  <2>1. CASE t = r
    <3>1. S[r] = s + 1 /\ id[r] = p /\ box[r] = b
      BY DEF ProcessInv
    <3>2. G[p] <= s + 1
      BY <1>1, <1>6 DEF SenderInv
    <3>3. n + 1 \in 1 .. Len(N[b])
      BY <1>2, <1>4
    <3>4. \A c \in Boxes : \A i \in 1 .. Len(N[c]) :
            N[c][i][1] = p => c = b /\ N[c][i][2] <= s + 1
      <4> SUFFICES ASSUME NEW c \in Boxes, NEW i \in 1 .. Len(N[c]), N[c][i][1] = p
                   PROVE  c = b /\ N[c][i][2] <= s + 1
        OBVIOUS
      <4>1. CASE c = b /\ i = n + 1 /\ N[c][i] = m
        BY <1>1, <1>4, <4>1
      <4>2. CASE i \in 1 .. Len(M[c]) /\ N[c][i] = M[c][i]
        <5>1. M[c][i][2] <= s /\ M[c][i][2] \in Nat /\ c = b
          BY <1>11, <4>2, InTheMail
        <5> QED BY <1>1, <4>2, <5>1
      <4> QED BY <1>9, <4>1, <4>2
    <3>5. \E i \in 1 .. Len(N[b]) : N[b][i] = <<p, s + 1>>
      BY <1>1, <1>4, <3>3
    <3>6. SenderInv(p, s + 1, b, N, G)
      BY <3>2, <3>4, <3>5 DEF SenderInv
    <3> QED BY <2>1, <3>1, <3>6
  <2>2. CASE t # r
    <3> PICK u : u = id[t]
      OBVIOUS
    <3> PICK l : l = sequence[t]
      OBVIOUS
    <3> PICK d : d = box[t]
      OBVIOUS
    <3>1. SenderInv(u, l, d, M, G) /\ S[t] = l /\ u # p /\ d \in Boxes
      BY <1>13, <2>2 DEF Words, ProcessInv
    <3>2. \A c \in Boxes : \A i \in 1 .. Len(N[c]) :
            N[c][i][1] = u => i \in 1 .. Len(M[c]) /\ N[c][i] = M[c][i]
      BY <1>4, <1>9, <3>1
    <3>3. G[u] < l => \E i \in 1 .. Len(N[d]) : N[d][i] = <<u, l>>
      BY <1>10, <3>1 DEF SenderInv
    <3>4. \A c \in Boxes : \A i \in 1 .. Len(N[c]) : N[c][i][1] = u => c = d /\ N[c][i][2] <= l
      BY <3>1, <3>2 DEF SenderInv
    <3>5. SenderInv(u, l, d, N, G)
      BY <3>1, <3>3, <3>4 DEF SenderInv
    <3> QED BY <3>1, <3>5
  <2> QED BY <2>1, <2>2
<1>14. S \in [Tasks -> Nat]
  BY <1>1 DEF ProcessInv
<1>15. Words(N, G, S)
  BY <1>1, <1>7, <1>8, <1>12, <1>13 DEF Words
<1> QED BY <1>0, <1>5, <1>14, <1>15


LEMMA HeadIsFirst ==
  ASSUME NEW S, NEW q \in Seq(S), q # <<>>
  PROVE  Head(q) = q[1]
  BY HeadTailProperties, EmptySeq

LEMMA FurtherOn ==
  ASSUME NEW a \in Nat, NEW k \in Nat, NEW l \in Nat, k = a + 1, k + 1 < l
  PROVE  a + 1 < l
  OBVIOUS

LEMMA NotNext ==
  ASSUME NEW k \in Nat, NEW l \in Nat, l - 1 = k
  PROVE  ~(k + 1 < l)
  OBVIOUS

(* The first message of a mailbox is the next word of its producer.        *)
LEMMA WordTaken ==
  ASSUME ProcessInv,
         NEW M \in [Boxes -> Seq(Messages)], NEW G \in [Starts -> Nat],
         NEW S \in [Tasks -> Nat], Words(M, G, S),
         NEW b \in Boxes, M[b] # <<>>
  PROVE  /\ NextOut(Head(M[b]), G)
         /\ Drop(M, b) \in [Boxes -> Seq(Messages)]
         /\ Words(Drop(M, b), OneMore(G, Head(M[b])[1]), S)
<1> PICK m : m = Head(M[b])
  OBVIOUS
<1> PICK N : N = [M EXCEPT ![b] = Tail(@)]
  OBVIOUS
<1> PICK H : H = [G EXCEPT ![m[1]] = @ + 1]
  OBVIOUS
<1>12. N = Drop(M, b) /\ H = OneMore(G, Head(M[b])[1])
  BY DEF Drop, OneMore
<1> PICK q : q = M[b]
  OBVIOUS
<1> PICK n : n = Len(q)
  OBVIOUS
<1> PICK p : p = m[1]
  OBVIOUS
<1> PICK k : k = m[2]
  OBVIOUS
<1>1. /\ q \in Seq(Messages) /\ n \in Nat /\ n >= 1 /\ m \in Messages /\ m = q[1]
      /\ m = <<p, k>> /\ p \in Starts /\ k \in Nat /\ G[p] \in Nat
  <2>1. q \in Seq(Messages) /\ n \in Nat
    BY InTheMail
  <2>2. n >= 1
    BY <2>1, EmptySeq
  <2>3. m = q[1] /\ m \in Messages
    BY <2>1, HeadIsFirst, ElementOfSeq, HeadTailProperties
  <2>4. m = <<p, k>> /\ p \in Starts /\ k \in Nat
    BY <2>3, MailProgramsAssumption, SMTT(40) DEF Starts
  <2> QED BY <2>1, <2>2, <2>3, <2>4
<1>0. k \in Nat /\ G[p] \in Nat /\ p \in Starts
  BY <1>1, Zenon
<1>2. /\ N[b] = Tail(q) /\ Len(N[b]) = n - 1 /\ N[b] \in Seq(Messages)
      /\ \A i \in 1 .. n - 1 : i + 1 \in 1 .. n /\ N[b][i] = q[i + 1]
      /\ \A c \in Boxes \ {b} : N[c] = M[c]
  <2>1. N[b] = Tail(q) /\ \A c \in Boxes \ {b} : N[c] = M[c]
    OBVIOUS
  <2>2. Tail(q) \in Seq(Messages) /\ Len(Tail(q)) = n - 1 /\ \A i \in 1 .. Len(Tail(q)) : Tail(q)[i] = q[i + 1]
    BY <1>1, HeadTailProperties
  <2> PICK z : z = Tail(q)
    OBVIOUS
  <2>3. N[b] = z /\ Len(z) = n - 1 /\ z \in Seq(Messages)
    BY <2>1, <2>2
  <2>4. \A i \in 1 .. n - 1 : z[i] = q[i + 1]
    BY <2>2, <2>3
  <2>5. \A i \in 1 .. n - 1 : i + 1 \in 1 .. n
    BY <1>1
  <2> QED BY <2>1, <2>3, <2>4, <2>5
<1>3. k = G[p] + 1
  <2>1. G[p] < k /\ (G[p] + 1 < k => \E j \in 1 .. 1 - 1 : q[j] = <<p, k - 1>>)
    <3>1. 1 \in 1 .. n
      BY <1>1
    <3>2. WordsIn(q, G) /\ p = q[1][1] /\ k = q[1][2]
      BY <1>1 DEF Words
    <3> QED BY <3>1, <3>2 DEF WordsIn
  <2>2. 1 .. 1 - 1 = {}
    OBVIOUS
  <2> QED BY <1>1, <2>1, <2>2
<1>5. /\ H \in [Starts -> Nat] /\ H[p] = k
      /\ \A u \in Starts \ {p} : H[u] = G[u]
  BY <1>1, <1>3
<1>6. \A i \in 1 .. n : q[i][1] = p => i = 1 \/ k < q[i][2]
  <2> SUFFICES ASSUME NEW i \in 1 .. n, q[i][1] = p, i # 1
               PROVE  k < q[i][2]
    OBVIOUS
  <2>1. \A j \in 1 .. i - 1 : q[j][1] = p => q[j][2] < q[i][2]
    BY DEF Words, WordsIn
  <2>2. 1 \in 1 .. i - 1
    BY <1>1
  <2> QED BY <1>1, <2>1, <2>2
<1>7. \A c \in Boxes : \A i \in 1 .. Len(M[c]) : M[c][i][1] = p => c = b
  BY <1>1 DEF Words, OneBox
<1>8. N \in [Boxes -> Seq(Messages)] /\ p <= starts
  <2>1. 1 \in 1 .. n /\ WordsIn(q, G)
    BY <1>1 DEF Words
  <2>2. p <= starts
    BY <1>1, <2>1 DEF WordsIn
  <2> QED BY <1>1, <1>2, <2>2
<1>9. WordsIn(N[b], H)
  <2> SUFFICES ASSUME NEW i \in 1 .. n - 1
               PROVE  LET u == N[b][i][1]
                          l == N[b][i][2]
                      IN  /\ u <= starts /\ H[u] < l
                          /\ H[u] + 1 < l => \E j \in 1 .. i - 1 : N[b][j] = <<u, l - 1>>
                          /\ \A j \in 1 .. i - 1 : N[b][j][1] = u => N[b][j][2] < l
    BY <1>2 DEF WordsIn
  <2> PICK u : u = N[b][i][1]
    OBVIOUS
  <2> PICK l : l = N[b][i][2]
    OBVIOUS
  <2> DEFINE a == i + 1
  <2>0. a # 1
    OBVIOUS
  <2>1. /\ a \in 1 .. n /\ i \in Nat /\ u = q[a][1] /\ l = q[a][2]
        /\ u \in Starts /\ l \in Nat /\ G[u] \in Nat
    <3>1. a \in 1 .. n /\ N[b][i] = q[a] /\ i \in Nat
      BY <1>1, <1>2
    <3>2. q[a][1] \in Starts /\ q[a][2] \in Nat
      <4> HIDE DEF a
      <4> QED BY <3>1, InTheMail
    <3>3. u = q[a][1] /\ l = q[a][2]
      <4> HIDE DEF a
      <4> QED BY <3>1
    <3> HIDE DEF a
    <3> QED BY <3>1, <3>2, <3>3
  <2>2. /\ u <= starts /\ G[u] < l
        /\ G[u] + 1 < l => \E j \in 1 .. a - 1 : q[j] = <<u, l - 1>>
        /\ \A j \in 1 .. a - 1 : q[j][1] = u => q[j][2] < l
    <3> HIDE DEF a
    <3>1. a \in 1 .. Len(q) /\ u = q[a][1] /\ l = q[a][2] /\ WordsIn(q, G)
      BY <2>1 DEF Words
    <3> QED BY <3>1 DEF WordsIn
  <2>3. \A j \in 1 .. i - 1 : j + 1 \in 1 .. a - 1 /\ N[b][j] = q[j + 1]
    BY <1>1, <1>2, <2>1
  <2> HIDE DEF a
  <2>4. H[u] = IF u = p THEN k ELSE G[u]
    BY <1>1, <1>5, <2>1
  <2>5. u = p => k < l
    BY <1>1, <1>6, <2>0, <2>1
  <2>6. H[u] < l
    BY <2>2, <2>4, <2>5
  <2>7. H[u] + 1 < l => \E j \in 1 .. i - 1 : N[b][j] = <<u, l - 1>>
    <3> HAVE H[u] + 1 < l
    <3>1. G[u] + 1 < l
      <4>1. u = p => k + 1 < l
        BY <2>4
      <4>2. u = p => G[u] + 1 < l
        BY <1>0, <1>3, <2>1, <4>1, FurtherOn, Zenon
      <4> QED BY <2>4, <4>2
    <3>2. PICK j \in 1 .. a - 1 : q[j] = <<u, l - 1>>
      BY <2>2, <3>1
    <3>3. j # 1
      <4> SUFFICES ASSUME j = 1
                   PROVE  FALSE
        OBVIOUS
      <4>1. u = p /\ l - 1 = k
        BY <1>1, <3>2
      <4>2. k + 1 < l
        BY <2>4, <4>1
      <4> QED BY <1>0, <2>1, <4>1, <4>2, NotNext, Zenon
    <3>4. j - 1 \in 1 .. i - 1 /\ (j - 1) + 1 = j
      BY <2>1, <3>3 DEF a
    <3> QED BY <2>3, <3>2, <3>4
  <2>8. \A j \in 1 .. i - 1 : N[b][j][1] = u => N[b][j][2] < l
    BY <2>2, <2>3
  <2>9. /\ u <= starts /\ H[u] < l
        /\ H[u] + 1 < l => \E j \in 1 .. i - 1 : N[b][j] = <<u, l - 1>>
        /\ \A j \in 1 .. i - 1 : N[b][j][1] = u => N[b][j][2] < l
    BY <2>2, <2>6, <2>7, <2>8
  <2> QED BY <2>9
<1>10. ASSUME NEW c \in Boxes \ {b}
       PROVE  WordsIn(N[c], H)
  <2> PICK z : z = M[c]
    OBVIOUS
  <2>1. WordsIn(z, G) /\ N[c] = z
    BY <1>2 DEF Words
  <2>2. \A i \in 1 .. Len(z) : H[z[i][1]] = G[z[i][1]]
    BY <1>5, <1>7, InTheMail
  <2>3. WordsIn(z, H)
    BY <2>1, <2>2 DEF WordsIn
  <2> QED BY <2>1, <2>3
<1>11. \A c \in Boxes : \A i \in 1 .. Len(N[c]) :
         \E j \in 1 .. Len(M[c]) : N[c][i] = M[c][j]
  BY <1>1, <1>2
<1>14. OneBox(N)
  <2> SUFFICES ASSUME NEW c \in Boxes, NEW d \in Boxes,
                      NEW i \in 1 .. Len(N[c]), NEW j \in 1 .. Len(N[d]),
                      N[c][i][1] = N[d][j][1]
               PROVE  c = d
    BY DEF OneBox
  <2>1. PICK k1 \in 1 .. Len(M[c]), k2 \in 1 .. Len(M[d]) : M[c][k1][1] = M[d][k2][1]
    <3>1. PICK k1 \in 1 .. Len(M[c]) : N[c][i] = M[c][k1]
      BY <1>11
    <3>2. PICK k2 \in 1 .. Len(M[d]) : N[d][j] = M[d][k2]
      BY <1>11
    <3> QED BY <3>1, <3>2
  <2>2. OneBox(M)
    BY DEF Words
  <2> QED BY <2>1, <2>2 DEF OneBox
<1>13. ASSUME NEW t \in Tasks, id[t] # 0
       PROVE  SenderInv(id[t], S[t], box[t], N, H)
  <2> PICK u : u = id[t]
    OBVIOUS
  <2> PICK s : s = S[t]
    OBVIOUS
  <2> PICK c : c = box[t]
    OBVIOUS
  <2>1. /\ u \in Starts /\ s \in Nat /\ c \in Boxes
        /\ id[t] = u /\ S[t] = s /\ box[t] = c
    <3>1. id[t] \in 0 .. starts /\ starts \in 0 .. MaxStarts /\ MaxStarts \in Nat
          /\ S[t] \in Nat /\ box[t] \in Boxes
      BY MailProgramsAssumption DEF ProcessInv
    <3> QED BY <1>13, <3>1 DEF Starts
  <2>2. /\ G[u] <= s /\ G[u] \in Nat
        /\ G[u] < s => \E i \in 1 .. Len(M[c]) : M[c][i] = <<u, s>>
        /\ \A d \in Boxes : \A i \in 1 .. Len(M[d]) : M[d][i][1] = u => d = c /\ M[d][i][2] <= s
    <3>1. SenderInv(u, s, c, M, G)
      BY <1>13, <2>1 DEF Words
    <3> QED BY <2>1, <3>1 DEF SenderInv
  <2>3. H[u] = IF u = p THEN k ELSE G[u]
    BY <1>1, <1>5, <2>1
  <2>4. u = p => c = b /\ k <= s
    BY <1>1, <2>2
  <2>5. H[u] <= s
    BY <2>2, <2>3, <2>4
  <2>6. H[u] < s => \E i \in 1 .. Len(N[c]) : N[c][i] = <<u, s>>
    <3> HAVE H[u] < s
    <3>1. G[u] < s
      BY <1>1, <1>3, <2>1, <2>2, <2>3
    <3>2. PICK i \in 1 .. Len(M[c]) : M[c][i] = <<u, s>>
      BY <2>2, <3>1
    <3>3. CASE c # b
      BY <1>2, <2>1, <3>2, <3>3
    <3>4. CASE c = b
      <4>1. i # 1
        <5> SUFFICES ASSUME i = 1
                     PROVE  FALSE
          OBVIOUS
        <5>1. u = p /\ s = k
          BY <1>1, <3>2, <3>4
        <5> QED BY <1>1, <2>3, <5>1
      <4>2. i - 1 \in 1 .. n - 1 /\ (i - 1) + 1 = i
        BY <1>1, <3>4, <4>1
      <4>3. N[c][i - 1] = q[i] /\ q[i] = <<u, s>>
        BY <1>2, <3>2, <3>4, <4>2
      <4>4. i - 1 \in 1 .. Len(N[c])
        BY <1>2, <3>4, <4>2
      <4> QED BY <4>3, <4>4
    <3> QED BY <3>3, <3>4
  <2>7. \A d \in Boxes : \A i \in 1 .. Len(N[d]) : N[d][i][1] = u => d = c /\ N[d][i][2] <= s
    BY <1>11, <2>2
  <2>8. SenderInv(u, s, c, N, H)
    BY <2>5, <2>6, <2>7 DEF SenderInv
  <2> QED BY <2>1, <2>8
<1>15. Words(N, H, S)
  BY <1>9, <1>10, <1>13, <1>14 DEF Words
<1>16. NextOut(m, G)
  BY <1>1, <1>3, <1>8 DEF NextOut
<1> QED BY <1>8, <1>12, <1>15, <1>16


(* A word that leaves a mailbox, whether it reaches a buffer or is lost.   *)
LEMMA WordLeaves ==
  ASSUME ProcessInv, MailTypes, starts' = starts,
         NEW m, NextOut(m, Gone), NEW h \in Tasks,
         \/ /\ got' = [got EXCEPT ![h] = m]
            /\ received' = [received EXCEPT ![m[1]] = @ + 1] /\ lost' = lost
         \/ /\ got' = got
            /\ received' = received /\ lost' = [lost EXCEPT ![m[1]] = @ + 1],
         mail' \in [Boxes -> Seq(Messages)],
         awaiting' \in [Boxes -> Seq(Tasks \cup {NULL})]
  PROVE  MailTypes' /\ Gone' = OneMore(Gone, m[1])
<1> PICK p : p = m[1]
  OBVIOUS
<1>1. /\ p \in Starts /\ starts \in Nat /\ Starts' = Starts /\ Starts \subseteq Nat
      /\ m \in Messages /\ p <= starts /\ m[2] = Gone[p] + 1
  BY MailProgramsAssumption DEF ProcessInv, Starts, NextOut
<1>2. \A u \in Starts : /\ received[u] \in Nat /\ lost[u] \in Nat
                        /\ Gone[u] = received[u] + lost[u] /\ Gone[u] \in Nat
  BY DEF MailTypes, Gone
<1>3. /\ received' \in [Starts -> Nat] /\ lost' \in [Starts -> Nat]
      /\ received'[p] + lost'[p] = Gone[p] + 1
      /\ \A u \in Starts \ {p} : received'[u] + lost'[u] = Gone[u]
  <2>1. received \in [Starts -> Nat] /\ lost \in [Starts -> Nat]
    BY DEF MailTypes
  <2>2. CASE received' = [received EXCEPT ![p] = @ + 1] /\ lost' = lost
    <3>1. received'[p] = received[p] + 1 /\ \A u \in Starts \ {p} : received'[u] = received[u]
      BY <1>1, <2>1, <2>2
    <3>2. received' \in [Starts -> Nat]
      BY <1>1, <2>1, <2>2
    <3>3. received'[p] + lost'[p] = Gone[p] + 1
      <4>1. received[p] \in Nat /\ lost[p] \in Nat /\ Gone[p] = received[p] + lost[p]
        BY <1>1, <1>2
      <4>2. lost'[p] = lost[p]
        BY <2>2
      <4> QED BY <3>1, <4>1, <4>2
    <3>4. \A u \in Starts \ {p} : received'[u] + lost'[u] = Gone[u]
      BY <1>2, <2>2, <3>1
    <3> QED BY <2>1, <2>2, <3>2, <3>3, <3>4
  <2>3. CASE received' = received /\ lost' = [lost EXCEPT ![p] = @ + 1]
    <3>1. lost'[p] = lost[p] + 1 /\ \A u \in Starts \ {p} : lost'[u] = lost[u]
      BY <1>1, <2>1, <2>3
    <3>2. lost' \in [Starts -> Nat]
      BY <1>1, <2>1, <2>3
    <3>3. received'[p] + lost'[p] = Gone[p] + 1
      <4>1. received[p] \in Nat /\ lost[p] \in Nat /\ Gone[p] = received[p] + lost[p]
        BY <1>1, <1>2
      <4>2. received'[p] = received[p]
        BY <2>3
      <4> QED BY <3>1, <4>1, <4>2
    <3>4. \A u \in Starts \ {p} : received'[u] + lost'[u] = Gone[u]
      BY <1>2, <2>3, <3>1
    <3> QED BY <2>1, <2>3, <3>2, <3>3, <3>4
  <2> QED BY <2>2, <2>3
<1>4. Gone' = [Gone EXCEPT ![p] = @ + 1] /\ Gone' = OneMore(Gone, m[1])
  <2>1. Gone' = [u \in Starts |-> received'[u] + lost'[u]]
    BY <1>1 DEF Gone
  <2>2. Gone \in [Starts -> Nat]
    BY GoneType
  <2>3. Gone' = [Gone EXCEPT ![p] = @ + 1]
    BY <1>3, <2>1, <2>2
  <2> QED BY <2>3 DEF OneMore
<1>5. \A u \in Starts : u > starts => Gone'[u] = 0
  <2>1. p <= starts /\ Gone \in [Starts -> Nat]
    BY <1>1, GoneType
  <2>2. \A u \in Starts : u > starts => u # p
    BY <1>1, <2>1
  <2> QED BY <1>4, <2>1, <2>2 DEF MailTypes
<1>6. /\ Gone'[p] = Gone[p] + 1 /\ \A u \in Starts \ {p} : Gone'[u] = Gone[u]
  BY <1>1, <1>4, GoneType
<1>7. got' \in [Tasks -> Messages \cup {NoMail}]
  BY <1>1 DEF MailTypes
<1>8. ASSUME NEW t \in Tasks, got'[t] # NoMail
      PROVE  got'[t][2] <= Gone'[got'[t][1]]
  <2>1. CASE got'[t] = m
    BY <1>1, <1>2, <1>6, <2>1
  <2>2. CASE got'[t] = got[t]
    <3> PICK u : u = got[t][1]
      OBVIOUS
    <3> PICK k : k = got[t][2]
      OBVIOUS
    <3>1. got[t] \in Messages /\ k <= Gone[u]
      BY <1>8, <2>2 DEF MailTypes
    <3>2. u \in Starts /\ k \in Nat
      BY <3>1, MailProgramsAssumption DEF Starts
    <3>3. Gone'[u] = Gone[u] \/ Gone'[u] = Gone[u] + 1
      BY <1>6, <3>2
    <3>4. k <= Gone'[u]
      BY <1>2, <3>1, <3>2, <3>3
    <3> QED BY <2>2, <3>4
  <2> QED BY <2>1, <2>2 DEF MailTypes
<1>9. MailTypes'
  BY <1>1, <1>3, <1>5, <1>7, <1>8 DEF MailTypes
<1> QED BY <1>4, <1>9

(* A word that has not left yet is in no buffer.                           *)
LEMMA NotYetGot ==
  ASSUME MailTypes, NEW m, NextOut(m, Gone), NEW t \in Tasks
  PROVE  got[t] # m
<1> SUFFICES ASSUME got[t] = m
             PROVE  FALSE
  OBVIOUS
<1>1. m # NoMail /\ m[1] \in Starts /\ m[2] = Gone[m[1]] + 1
  BY MailProgramsAssumption DEF NextOut
<1>2. m[2] <= Gone[m[1]]
  BY <1>1 DEF MailTypes
<1>3. Gone[m[1]] \in Nat
  BY <1>1, GoneType
<1> QED BY <1>1, <1>2, <1>3

(* WordInv is about what the mailboxes hold, the counts and the sequences. *)
LEMMA WordsKept ==
  ASSUME NEW M, NEW G, NEW S, Words(M, G, S),
         mail' = M, Gone' = G, sequence' = S, UNCHANGED <<starts, id, box>>
  PROVE  WordInv'
<1>1. \A b \in Boxes : WordsIn(mail[b], Gone)'
  BY DEF Words, WordsIn
<1>2. OneBox(mail)'
  BY DEF Words, OneBox
<1>3. \A t \in Tasks : id'[t] # 0 => SenderInv(id[t], sequence[t], box[t], mail, Gone)'
  BY DEF Words, SenderInv
<1> QED BY <1>1, <1>2, <1>3 DEF WordInv, Words

-----------------------------------------------------------------------------
(* The steps.                                                              *)

\* What WordsInOrder says of a step.
InOrder ==
  /\ \A t \in Tasks : got'[t] # got[t] =>
       LET p == got'[t][1] IN got'[t][2] = received[p] + lost[p] + 1
  /\ \A p \in 1 .. MaxStarts : lost'[p] # lost[p] =>
       \E b \in Boxes : awaiting[b] # <<>> /\ Head(awaiting[b]) = NULL

LEMMA UserFacts ==
  ASSUME MailProgInv, phase = "user"
  PROVE  running \in Tasks
  BY DEF MailProgInv, TurnInv

(* The calls that exchange no messages, the ticks, and scheduler_run.      *)
LEMMA OtherCalls ==
  ASSUME MailProgInv,
         Query \/ Tick \/ Yield \/ Halt \/ Schedule \/ \E ticks \in SleepTicks : Sleep(ticks)
  PROVE  TurnInv' /\ NobodyLeaves
<1>1. CASE Query \/ Tick \/ Halt
  BY <1>1, TurnKept DEF Query, Tick, Halt, Call, MailProgInv, NobodyLeaves
<1>2. CASE Yield
  <2>1. running \in Tasks
    BY <1>2, UserFacts DEF Yield, Call
  <2>2. MakeReady(running) /\ running' = NULL /\ phase' # "user"
    BY <1>2 DEF Yield, Call
  <2> QED BY <2>1, <2>2, MadeReady DEF MailProgInv
<1>3. CASE \E ticks \in SleepTicks : Sleep(ticks)
  <2>1. /\ running \in Tasks /\ running' = NULL /\ queue' = queue /\ phase' # "user"
        /\ status' = [status EXCEPT ![running] = "SLEEPING"]
    BY <1>3, UserFacts DEF Sleep, Call
  <2>2. "SLEEPING" \in States
    BY DEF States
  <2>3. NobodyLeaves
    BY <2>1 DEF NobodyLeaves, MailProgInv, TurnInv
  <2> QED BY <2>1, <2>2, <2>3, TurnKept DEF MailProgInv
<1>4. CASE Schedule
  BY <1>4, SchedulerKeeps DEF MailProgInv
<1> QED BY <1>1, <1>2, <1>3, <1>4

LEMMA SameAsBefore ==
  ASSUME ProcessInv, UNCHANGED <<box, id, sequence>>
  PROVE  SameSenders
  BY DEF SameSenders

(* The steps that leave the mailboxes alone and end no program.            *)
LEMMA QuietStep ==
  ASSUME MailProgInv, TurnInv', ProcessInv', SameSenders, starts' >= starts,
         UNCHANGED <<mail, awaiting, got, received, lost>>
  PROVE  MailProgInv' /\ InOrder
<1>1. awaiting' \in [Boxes -> Seq(Tasks \cup {NULL})]
  BY DEF MailProgInv, MailTypes
<1>2. MailTypes' /\ WordInv'
  BY <1>1, MailRests DEF MailProgInv
<1> QED BY <1>2 DEF MailProgInv, InOrder

LEMMA NoFewer ==
  ASSUME ProcessInv, starts' = starts
  PROVE  starts' >= starts
  BY MailProgramsAssumption DEF ProcessInv

LEMMA KernelSteps ==
  ASSUME MailProgInv, KernelStep(Tick) \/ KernelStep(Halt) \/ KernelStep(Schedule)
  PROVE  MailProgInv' /\ InOrder
<1>1. TurnInv' /\ NobodyLeaves
  BY OtherCalls DEF KernelStep
<1>2. UNCHANGED <<mail, awaiting, got>> /\ UNCHANGED mailProgVars
  BY DEF KernelStep
<1>3. ProcessInv'
  BY <1>1, <1>2, ProgramStays DEF MailProgInv
<1>4. starts' >= starts /\ SameSenders /\ UNCHANGED <<received, lost>>
  BY <1>2, NoFewer, SameAsBefore DEF MailProgInv, mailProgVars
<1> QED BY <1>1, <1>2, <1>3, <1>4, QuietStep

(* The steps of a program but its calls that send, receive and exit.       *)
LEMMA OwnSteps ==
  ASSUME MailProgInv, InitYields \/ ProducerSleeps \/ ConsumerReads
  PROVE  MailProgInv' /\ InOrder
<1>1. running \in Tasks
  BY UserFacts DEF InitYields, ProducerSleeps, ConsumerReads, At
<1>2. TurnInv' /\ NobodyLeaves
  <2>1. CASE ConsumerReads
    <3>1. UNCHANGED <<status, queue, running, phase>>
      BY <2>1 DEF ConsumerReads, mailServiceVars, rrVars
    <3> QED BY <3>1, TurnKept DEF MailProgInv, NobodyLeaves
  <2>2. CASE InitYields \/ ProducerSleeps
    BY <2>2, OtherCalls DEF InitYields, ProducerSleeps
  <2> QED BY <2>1, <2>2
<1>3. UNCHANGED <<mail, awaiting, got, box, id, sequence, starts, received, lost>>
  BY DEF InitYields, ProducerSleeps, ConsumerReads, mailServiceVars, mailProgVars
<1>4. ProcessInv'
  <2>1. CASE InitYields
    BY <1>2, <2>1, ProgramStays DEF InitYields, MailProgInv
  <2>2. CASE ProducerSleeps
    <3>1. pc[running] = "pause" /\ id[running] # 0
      BY <1>1, <2>2 DEF ProducerSleeps, At, MailProgInv, ProcessInv
    <3>2. PICK label \in {"send", "exit"} :
            /\ pc' = [pc EXCEPT ![running] = label]
            /\ label = "send" => sequence[running] < WORD_COUNT
      BY <2>2 DEF ProducerSleeps, Goto
    <3>3. label \in Labels
      BY DEF Labels
    <3> QED BY <1>1, <1>2, <1>3, <3>1, <3>2, <3>3, ProgramGoes DEF MailProgInv
  <2>3. CASE ConsumerReads
    <3>1. PICK label \in {"receive", "exit"} : pc' = [pc EXCEPT ![running] = label]
      BY <2>3 DEF ConsumerReads, Goto
    <3>2. label \in Labels /\ label \notin {"send", "pause"}
      BY DEF Labels
    <3> QED BY <1>1, <1>2, <1>3, <3>1, <3>2, ProgramGoes DEF MailProgInv
  <2> QED BY <2>1, <2>2, <2>3
<1>5. starts' >= starts /\ SameSenders
  BY <1>3, NoFewer, SameAsBefore DEF MailProgInv
<1> QED BY <1>2, <1>3, <1>4, <1>5, QuietStep

(* A new program has an id of its own, and has sent nothing.               *)
LEMMA StartStep ==
  ASSUME MailProgInv, NEW t \in Tasks, NEW label \in {"send", "receive"}, NEW b \in Boxes,
         KeyStarts(t, label, b)
  PROVE  MailProgInv' /\ InOrder
<1>1. /\ phase = "kernel" /\ starts < MaxStarts /\ Exec(t) /\ starts' = starts + 1
      /\ pc' = [pc EXCEPT ![t] = label] /\ box' = [box EXCEPT ![t] = b]
      /\ id' = [id EXCEPT ![t] = starts + 1]
      /\ UNCHANGED <<mail, awaiting, got, sequence, received, lost>>
  BY DEF KeyStarts
<1>2. TurnInv' /\ NobodyLeaves /\ status'[t] # "NONE" /\ status[t] = "NONE"
  BY <1>1, MadeReady DEF Exec, MailProgInv
<1>3. ProcessInv'
  BY <1>1, <1>2, ProgramBegins DEF MailProgInv
<1>4. starts \in Nat /\ starts + 1 \in Starts
  BY <1>1, MailProgramsAssumption DEF MailProgInv, ProcessInv, Starts
<1>5. SameSenders
  <2> SUFFICES ASSUME NEW u \in Tasks, id'[u] # 0
               PROVE  \/ id'[u] = id[u] /\ box'[u] = box[u] /\ sequence'[u] = sequence[u]
                      \/ id'[u] > starts /\ id'[u] \in Starts /\ sequence'[u] = 0
    BY DEF SameSenders
  <2>1. CASE u = t
    <3>1. id'[t] = starts + 1 /\ sequence'[t] = 0
      BY <1>1, <1>2 DEF MailProgInv, ProcessInv
    <3> QED BY <1>4, <2>1, <3>1
  <2>2. CASE u # t
    BY <1>1, <2>2 DEF MailProgInv, ProcessInv
  <2> QED BY <2>1, <2>2
<1> QED BY <1>1, <1>2, <1>3, <1>4, <1>5, QuietStep

(* Who exits leaves its messages, and its place in a line empty.           *)
LEMMA ExitStep ==
  ASSUME MailProgInv, Quit, Discard(running), UNCHANGED <<starts, received, lost>>
  PROVE  MailProgInv' /\ InOrder
<1>1. /\ running \in Tasks /\ running' = NULL /\ queue' = queue /\ phase' # "user"
      /\ status' = [status EXCEPT ![running] = "NONE"]
  BY DEF Quit, Exit, MailProgInv, TurnInv
<1>2. TurnInv'
  <2>1. "NONE" \in States
    BY DEF States
  <2> QED BY <1>1, <2>1, TurnKept DEF MailProgInv
<1>3. ProcessInv'
  <2>1. \A u \in Tasks : status'[u] = "NONE" => u = running \/ status[u] = "NONE"
    BY <1>1 DEF MailProgInv, TurnInv
  <2> QED BY <1>1, <2>1, ProgramEnds DEF MailProgInv
<1>4. SameSenders
  BY <1>1 DEF SameSenders, Discard, MailProgInv, ProcessInv
<1>5. UNCHANGED <<mail, got>> /\ awaiting' \in [Boxes -> Seq(Tasks \cup {NULL})]
  <2>1. UNCHANGED <<mail, got>>
        /\ awaiting' = [b \in Boxes |-> [k \in DOMAIN awaiting[b] |->
                           IF awaiting[b][k] = running THEN NULL ELSE awaiting[b][k]]]
    BY DEF Quit
  <2>2. ASSUME NEW b \in Boxes
        PROVE  awaiting'[b] \in Seq(Tasks \cup {NULL})
    <3>1. awaiting[b] \in Seq(Tasks \cup {NULL})
      BY DEF MailProgInv, MailTypes
    <3>2. /\ Len(awaiting[b]) \in Nat /\ DOMAIN awaiting[b] = 1 .. Len(awaiting[b])
          /\ \A k \in 1 .. Len(awaiting[b]) : awaiting[b][k] \in Tasks \cup {NULL}
      BY <3>1, LenProperties, ElementOfSeq
    <3>3. awaiting'[b] \in [1 .. Len(awaiting[b]) -> Tasks \cup {NULL}]
      BY <2>1, <3>2
    <3> QED BY <3>2, <3>3, SeqDef
  <2> QED BY <2>1, <2>2
<1>6. MailTypes' /\ WordInv'
  <2>1. starts' >= starts
    BY NoFewer DEF MailProgInv
  <2> QED BY <1>3, <1>4, <1>5, <2>1, MailRests DEF MailProgInv
<1> QED BY <1>2, <1>3, <1>5, <1>6 DEF MailProgInv, InOrder

(* What a send does to one mailbox, the counts and the line.               *)
LEMMA SentWord ==
  ASSUME MailTypes, NEW b \in Boxes, NEW m \in Messages,
         Deposit(b, m) \/ HandOver(b, m) \/ Misdeliver(b, m), Count(b, m),
         \A t \in Tasks : got[t] # Head(Put(mail, b, m)[b])
  PROVE  /\ awaiting' \in [Boxes -> Seq(Tasks \cup {NULL})]
         /\ \/ UNCHANGED <<got, received, lost>> /\ mail' = Put(mail, b, m)
            \/ /\ mail' = Drop(Put(mail, b, m), b)
               /\ \E h \in Tasks :
                    \/ /\ got' = [got EXCEPT ![h] = Head(Put(mail, b, m)[b])] /\ lost' = lost
                       /\ received' = OneMore(received, Head(Put(mail, b, m)[b])[1])
                    \/ /\ awaiting[b] # <<>> /\ Head(awaiting[b]) = NULL
                       /\ got' = got /\ received' = received
                       /\ lost' = OneMore(lost, Head(Put(mail, b, m)[b])[1])
<1> PICK N : N = Put(mail, b, m)
  OBVIOUS
<1>1. /\ mail \in [Boxes -> Seq(Messages)] /\ mail[b] \in Seq(Messages)
      /\ awaiting \in [Boxes -> Seq(Tasks \cup {NULL})]
      /\ awaiting[b] \in Seq(Tasks \cup {NULL})
  BY DEF MailTypes
<1> PICK n : n = Len(mail[b])
  OBVIOUS
<1>2. /\ N[b] = Append(mail[b], m) /\ N[b] \in Seq(Messages) /\ n \in Nat
      /\ Len(mail[b]) = n /\ Len(N[b]) = n + 1 /\ Len(Tail(N[b])) = n
  <2>1. N[b] = Append(mail[b], m) /\ n \in Nat
    BY <1>1, LenProperties DEF Put
  <2>2. N[b] \in Seq(Messages) /\ Len(N[b]) = n + 1
    BY <1>1, <2>1, AppendProperties
  <2>3. N[b] # <<>>
    BY <2>1, <2>2, EmptySeq
  <2>4. Len(Tail(N[b])) = Len(N[b]) - 1
    BY <2>2, <2>3, HeadTailProperties
  <2> QED BY <2>1, <2>2, <2>4
<1>3. Oldest(b, m) = Head(N[b])
  BY <1>2 DEF Oldest
<1>4. awaiting[b] # <<>> => Tail(awaiting[b]) \in Seq(Tasks \cup {NULL})
                            /\ Head(awaiting[b]) \in Tasks \cup {NULL}
  BY <1>1, HeadTailProperties
<1>5. awaiting' \in [Boxes -> Seq(Tasks \cup {NULL})]
  BY <1>1, <1>4 DEF Deposit, HandOver, Misdeliver
<1>6. ASSUME mail' = N, got' = got
      PROVE  UNCHANGED <<got, received, lost>> /\ mail' = N
  <2>1. Len(mail'[b]) # Len(mail[b])
    BY <1>2, <1>6
  <2> QED BY <1>6, <2>1 DEF Count, OneMore
<1>7. ASSUME mail' = [mail EXCEPT ![b] = Tail(Append(@, m))]
      PROVE  mail' = Drop(N, b) /\ Len(mail'[b]) = Len(mail[b])
  <2>1. mail' = Drop(N, b)
    BY <1>1, <1>7 DEF Put, Drop
  <2>2. mail'[b] = Tail(N[b])
    BY <1>1, <1>2, <1>7
  <2>3. Len(mail'[b]) = n
    BY <1>2, <2>2, Zenon
  <2> QED BY <1>2, <2>1, <2>3
<1>8. CASE Deposit(b, m)
  BY <1>5, <1>6, <1>8 DEF Deposit, Put
<1>9. CASE HandOver(b, m)
  <2>1. Head(awaiting[b]) \in Tasks
    BY <1>4, <1>9 DEF HandOver
  <2>2. /\ mail' = Drop(N, b) /\ Len(mail'[b]) = Len(mail[b])
        /\ got' = [got EXCEPT ![Head(awaiting[b])] = Head(N[b])]
    BY <1>3, <1>7, <1>9 DEF HandOver
  <2>3. got' # got
    BY <2>1, <2>2 DEF MailTypes
  <2> QED BY <1>3, <1>5, <2>1, <2>2, <2>3 DEF Count, OneMore
<1>10. CASE Misdeliver(b, m)
  <2>1. awaiting[b] # <<>> /\ Head(awaiting[b]) = NULL
    BY <1>10 DEF Misdeliver
  <2>2. CASE mail' = N /\ got' = got
    BY <1>5, <1>6, <2>2
  <2>3. CASE mail' = [mail EXCEPT ![b] = Tail(Append(@, m))] /\ got' = got
    BY <1>3, <1>5, <1>7, <2>1, <2>3, MailServiceAssumption DEF Count, OneMore
  <2>4. CASE /\ mail' = [mail EXCEPT ![b] = Tail(Append(@, m))]
             /\ got' = [got EXCEPT ![LastTask] = Oldest(b, m)]
    <3>1. LastTask \in Tasks
      BY MailServiceAssumption
    <3>2. got' # got
      BY <1>3, <2>4, <3>1 DEF MailTypes
    <3>3. lost' = lost /\ received' = OneMore(received, Head(N[b])[1])
      BY <1>3, <3>2 DEF Count, OneMore
    <3>4. mail' = Drop(N, b) /\ got' = [got EXCEPT ![LastTask] = Head(N[b])]
      BY <1>3, <1>7, <2>4
    <3> QED BY <1>5, <3>1, <3>3, <3>4
  <2> QED BY <1>10, <2>2, <2>3, <2>4 DEF Misdeliver, Put
<1> QED BY <1>8, <1>9, <1>10

LEMMA SendStep ==
  ASSUME MailProgInv, ProducerSends
  PROVE  MailProgInv' /\ InOrder
<1> PICK r : r = running
  OBVIOUS
<1> PICK b : b = box[r]
  OBVIOUS
<1> PICK m : m = NextWord(r)
  OBVIOUS
<1> PICK N : N = Put(mail, b, m)
  OBVIOUS
<1> PICK S : S = OneMore(sequence, r)
  OBVIOUS
<1>1. /\ r \in Tasks /\ pc[r] = "send" /\ id[r] # 0 /\ sequence[r] < WORD_COUNT /\ b \in Boxes
      /\ sequence' = S /\ pc' = [pc EXCEPT ![r] = "pause"]
      /\ UNCHANGED <<box, id, starts>>
  BY UserFacts DEF ProducerSends, At, Goto, MailProgInv, ProcessInv, OneMore
<1>2. m \in Messages
  <2>1. /\ id[r] \in 0 .. starts /\ starts \in 0 .. MaxStarts /\ MaxStarts \in Nat
        /\ sequence[r] \in 0 .. WORD_COUNT /\ WORD_COUNT \in Nat
    BY <1>1, MailProgramsAssumption DEF MailProgInv, ProcessInv
  <2>2. id[r] \in 1 .. MaxStarts /\ sequence[r] + 1 \in 1 .. WORD_COUNT
    BY <1>1, <2>1
  <2> QED BY <2>2, MailProgramsAssumption DEF NextWord
<1>3. /\ mail \in [Boxes -> Seq(Messages)] /\ Gone \in [Starts -> Nat]
      /\ ProcessInv /\ MailTypes /\ Words(mail, Gone, sequence)
  BY GoneType DEF MailProgInv, MailTypes, WordInv
<1>4. /\ N \in [Boxes -> Seq(Messages)] /\ N[b] # <<>>
      /\ S \in [Tasks -> Nat] /\ Words(N, Gone, S)
  <2>1. r \in Tasks /\ id[r] # 0 /\ NextWord(r) \in Messages
    BY <1>1, <1>2
  <2>2. /\ Put(mail, box[r], NextWord(r)) \in [Boxes -> Seq(Messages)]
        /\ Put(mail, box[r], NextWord(r))[box[r]] # <<>>
        /\ OneMore(sequence, r) \in [Tasks -> Nat]
        /\ Words(Put(mail, box[r], NextWord(r)), Gone, OneMore(sequence, r))
    BY <1>3, <2>1, WordPut, Zenon
  <2> QED BY <2>2
<1>0. /\ NextOut(Head(N[b]), Gone) /\ Drop(N, b) \in [Boxes -> Seq(Messages)]
      /\ Words(Drop(N, b), OneMore(Gone, Head(N[b])[1]), S)
  <2>1. b \in Boxes /\ ProcessInv /\ Gone \in [Starts -> Nat]
    BY <1>1, <1>3
  <2> QED BY <1>4, <2>1, WordTaken
<1> PICK o : o = Head(N[b])
  OBVIOUS
<1> PICK M : M = Drop(N, b)
  OBVIOUS
<1> PICK G : G = OneMore(Gone, o[1])
  OBVIOUS
<1>5. NextOut(o, Gone) /\ M \in [Boxes -> Seq(Messages)] /\ Words(M, G, S)
  BY <1>0
<1>6. /\ Deposit(b, m) \/ HandOver(b, m) \/ Misdeliver(b, m)
      /\ Count(b, m) /\ running' = running /\ phase' # "user"
  BY DEF ProducerSends, Send, Call, Word, NextWord
<1>7. \A t \in Tasks : got[t] # o
  BY <1>3, <1>5, NotYetGot
<1>8. /\ awaiting' \in [Boxes -> Seq(Tasks \cup {NULL})]
      /\ \/ UNCHANGED <<got, received, lost>> /\ mail' = N
         \/ /\ mail' = M
            /\ \E h \in Tasks :
                 \/ /\ got' = [got EXCEPT ![h] = o] /\ lost' = lost
                    /\ received' = OneMore(received, o[1])
                 \/ /\ awaiting[b] # <<>> /\ Head(awaiting[b]) = NULL
                    /\ got' = got /\ received' = received
                    /\ lost' = OneMore(lost, o[1])
  <2>1. /\ b \in Boxes /\ m \in Messages /\ MailTypes
        /\ \A t \in Tasks : got[t] # Head(Put(mail, b, m)[b])
    BY <1>1, <1>2, <1>3, <1>7
  <2> QED BY <1>6, <2>1, SentWord
<1>9. TurnInv' /\ NobodyLeaves
  <2>1. CASE Deposit(b, m) \/ Misdeliver(b, m)
    <3>1. UNCHANGED <<status, queue>>
      BY <2>1 DEF Deposit, Misdeliver
    <3> QED BY <1>6, <3>1, TurnKept DEF MailProgInv, NobodyLeaves
  <2>2. CASE HandOver(b, m)
    <3>1. Head(awaiting[b]) \in Tasks
      BY <1>1, <2>2, HeadTailProperties DEF HandOver, MailProgInv, MailTypes
    <3> QED BY <1>6, <2>2, <3>1, MadeReady DEF HandOver, MailProgInv
  <2> QED BY <1>6, <2>1, <2>2, Zenon
<1>10. ProcessInv'
  <2>1. "pause" \in Labels
    BY DEF Labels
  <2> QED BY <1>1, <1>9, <2>1, ProgramGoes DEF MailProgInv, OneMore
<1>11. CASE UNCHANGED <<got, received, lost>> /\ mail' = N
  <2>1. Gone' = Gone /\ Starts' = Starts
    BY <1>11 DEF Gone, Starts
  <2>2. MailTypes'
    BY <1>1, <1>3, <1>4, <1>8, <1>11, <2>1 DEF MailTypes
  <2>3. WordInv'
    BY <1>1, <1>4, <1>11, <2>1, WordsKept
  <2> QED BY <1>9, <1>10, <1>11, <2>2, <2>3 DEF MailProgInv, InOrder
<1>12. CASE /\ mail' = M
            /\ \E h \in Tasks :
                 \/ /\ got' = [got EXCEPT ![h] = o] /\ lost' = lost
                    /\ received' = OneMore(received, o[1])
                 \/ /\ awaiting[b] # <<>> /\ Head(awaiting[b]) = NULL
                    /\ got' = got /\ received' = received
                    /\ lost' = OneMore(lost, o[1])
  <2>1. MailTypes' /\ Gone' = G
    <3>1. PICK h \in Tasks :
            \/ /\ got' = [got EXCEPT ![h] = o] /\ lost' = lost
               /\ received' = [received EXCEPT ![o[1]] = @ + 1]
            \/ got' = got /\ received' = received /\ lost' = [lost EXCEPT ![o[1]] = @ + 1]
      BY <1>12, ZenonT(60) DEF OneMore
    <3> QED BY <1>1, <1>3, <1>5, <1>8, <1>12, <3>1, WordLeaves, ZenonT(60)
  <2>2. WordInv'
    BY <1>1, <1>5, <1>12, <2>1, WordsKept
  <2>3. InOrder
    <3>1. \A t \in Tasks : got'[t] # got[t] => got'[t] = o
      BY <1>12 DEF MailProgInv, MailTypes
    <3>2. o[2] = received[o[1]] + lost[o[1]] + 1
      BY <1>5 DEF Gone, NextOut
    <3>3. lost' # lost => awaiting[b] # <<>> /\ Head(awaiting[b]) = NULL
      BY <1>12
    <3> QED BY <1>1, <3>1, <3>2, <3>3 DEF InOrder
  <2> QED BY <1>9, <1>10, <2>1, <2>2, <2>3, SMTT(40) DEF MailProgInv
<1> QED BY <1>8, <1>11, <1>12

LEMMA ReceiveStep ==
  ASSUME MailProgInv, ConsumerReceives
  PROVE  MailProgInv' /\ InOrder
<1> PICK r : r = running
  OBVIOUS
<1> PICK b : b = box[r]
  OBVIOUS
<1>1. /\ r \in Tasks /\ b \in Boxes /\ pc' = [pc EXCEPT ![r] = "read"]
      /\ UNCHANGED <<box, id, sequence, starts, lost>>
      /\ received' = IF got' # got THEN [received EXCEPT ![got'[r][1]] = @ + 1] ELSE received
  BY UserFacts DEF ConsumerReceives, At, Goto, MailProgInv, ProcessInv
<1>2. /\ Take(b) \/ Await(b)
      /\ running' = running /\ queue' = queue /\ phase' # "user"
  BY DEF ConsumerReceives, Recv, Call
<1>3. "read" \in Labels
  BY DEF Labels
<1>4. CASE Take(b)
  <2> PICK o : o = Head(mail[b])
    OBVIOUS
  <2> PICK M : M = Drop(mail, b)
    OBVIOUS
  <2> PICK G : G = OneMore(Gone, o[1])
    OBVIOUS
  <2>1. /\ mail[b] # <<>> /\ got' = [got EXCEPT ![r] = o]
        /\ mail' = M /\ UNCHANGED <<status, awaiting>>
    BY <1>4 DEF Take, Drop
  <2>2. TurnInv' /\ NobodyLeaves
    BY <1>2, <2>1, TurnKept DEF MailProgInv, NobodyLeaves
  <2>3. /\ mail \in [Boxes -> Seq(Messages)] /\ Gone \in [Starts -> Nat]
        /\ sequence \in [Tasks -> Nat]
        /\ ProcessInv /\ MailTypes /\ Words(mail, Gone, sequence)
    <3>1. 0 .. WORD_COUNT \subseteq Nat
      BY MailProgramsAssumption
    <3> QED BY <3>1, GoneType DEF MailProgInv, ProcessInv, MailTypes, WordInv
  <2>4. NextOut(o, Gone) /\ M \in [Boxes -> Seq(Messages)] /\ Words(M, G, sequence)
    BY <1>1, <2>1, <2>3, WordTaken
  <2>5. got'[r] = o /\ got' # got
    <3>1. got[r] # o
      BY <1>1, <2>3, <2>4, NotYetGot, SMTT(40)
    <3> QED BY <1>1, <2>1, <2>3, <3>1 DEF MailTypes
  <2>6. MailTypes' /\ Gone' = G
    <3>1. received' = [received EXCEPT ![o[1]] = @ + 1]
      BY <1>1, <2>5
    <3>2. awaiting' \in [Boxes -> Seq(Tasks \cup {NULL})]
      BY <2>1, <2>3 DEF MailTypes
    <3> QED BY <1>1, <2>1, <2>3, <2>4, <3>1, <3>2, WordLeaves
  <2>7. WordInv'
    BY <1>1, <2>1, <2>4, <2>6, WordsKept
  <2>8. ProcessInv'
    BY <1>1, <1>3, <2>2, ProgramGoes DEF MailProgInv
  <2>9. InOrder
    <3>1. \A t \in Tasks : got'[t] # got[t] => got'[t] = o
      BY <1>1, <2>1 DEF MailProgInv, MailTypes
    <3>2. o[2] = received[o[1]] + lost[o[1]] + 1
      BY <2>4 DEF Gone, NextOut
    <3> QED BY <1>1, <3>1, <3>2 DEF InOrder
  <2> QED BY <2>2, <2>6, <2>7, <2>8, <2>9 DEF MailProgInv
<1>5. CASE Await(b)
  <2>1. /\ mail[b] = <<>> /\ awaiting' = [awaiting EXCEPT ![b] = Append(@, r)]
        /\ status' = [status EXCEPT ![r] = "WAITING"] /\ UNCHANGED <<mail, got>>
    BY <1>5 DEF Await
  <2>2. TurnInv' /\ NobodyLeaves
    <3>1. "WAITING" \in States
      BY DEF States
    <3>2. NobodyLeaves
      BY <1>1, <2>1 DEF MailProgInv, TurnInv, NobodyLeaves
    <3> QED BY <1>2, <2>1, <3>1, <3>2, TurnKept DEF MailProgInv
  <2>3. ProcessInv'
    BY <1>1, <1>3, <2>2, ProgramGoes DEF MailProgInv
  <2>4. UNCHANGED <<received, lost>>
    BY <1>1, <2>1
  <2>5. awaiting' \in [Boxes -> Seq(Tasks \cup {NULL})]
    BY <1>1, <2>1, AppendProperties DEF MailProgInv, MailTypes
  <2>6. starts' >= starts /\ SameSenders
    BY <1>1, NoFewer, SameAsBefore DEF MailProgInv
  <2>7. MailTypes' /\ WordInv'
    BY <2>1, <2>3, <2>4, <2>5, <2>6, MailRests DEF MailProgInv
  <2> QED BY <2>1, <2>2, <2>3, <2>4, <2>7 DEF MailProgInv, InOrder
<1> QED BY <1>2, <1>4, <1>5

LEMMA MailProgBegins ==
  ASSUME MailProgInit
  PROVE  MailProgInv
<1>1. TurnInv
  <2>1. <<Idle, InitTask>> \in Seq(Tasks)
    BY RoundRobinAssumption
  <2> QED BY <2>1 DEF MailProgInit, MailInit, RRInit, TurnInv, States
<1>2. ProcessInv
  <2>1. (CHOOSE b \in Boxes : TRUE) \in Boxes
    BY MailProgramsAssumption
  <2>2. {"yield", "none"} \subseteq Labels
    BY DEF Labels
  <2> QED BY <2>1, <2>2, MailProgramsAssumption DEF MailProgInit, ProcessInv
<1>3. \A b \in Boxes : mail[b] = <<>>
  BY DEF MailProgInit, MailInit
<1>4. MailTypes
  <2>1. mail \in [Boxes -> Seq(Messages)] /\ awaiting \in [Boxes -> Seq(Tasks \cup {NULL})]
    BY DEF MailProgInit, MailInit
  <2>2. \A p \in Starts : Gone[p] = 0
    BY DEF MailProgInit, Gone, Starts
  <2> QED BY <2>1, <2>2 DEF MailProgInit, MailInit, MailTypes, Starts
<1>5. WordInv
  <2>1. \A b \in Boxes : 1 .. Len(mail[b]) = {}
    BY <1>3, EmptyFacts
  <2>2. \A t \in Tasks : id[t] = 0
    BY DEF MailProgInit
  <2> QED BY <2>1, <2>2 DEF WordInv, Words, WordsIn, OneBox
<1> QED BY <1>1, <1>2, <1>4, <1>5 DEF MailProgInv

LEMMA MailProgStep ==
  ASSUME MailProgInv, [MailProgNext]_mailProgSysVars
  PROVE  MailProgInv' /\ InOrder
<1>1. CASE UNCHANGED mailProgSysVars
  <2>1. TurnInv' /\ NobodyLeaves
    BY <1>1, TurnKept DEF MailProgInv, NobodyLeaves, mailProgSysVars, mailServiceVars, rrVars
  <2>2. UNCHANGED mailProgVars /\ UNCHANGED <<mail, awaiting, got>>
    BY <1>1 DEF mailProgSysVars, mailServiceVars
  <2>3. ProcessInv'
    BY <2>1, <2>2, ProgramStays DEF MailProgInv
  <2>4. starts' >= starts /\ SameSenders /\ UNCHANGED <<received, lost>>
    BY <2>2, NoFewer, SameAsBefore DEF MailProgInv, mailProgVars
  <2> QED BY <2>1, <2>2, <2>3, <2>4, QuietStep
<1>2. CASE Program
  BY <1>2, OwnSteps, SendStep, ReceiveStep, ExitStep DEF Program, ProgramExits
<1>3. CASE KernelStep(Tick) \/ KernelStep(Halt) \/ KernelStep(Schedule)
  BY <1>3, KernelSteps
<1>4. CASE \E t \in Tasks, label \in {"send", "receive"}, b \in Boxes : KeyStarts(t, label, b)
  BY <1>4, StartStep
<1>5. CASE KeyExit
  BY <1>5, ExitStep DEF KeyExit
<1> QED BY <1>1, <1>2, <1>3, <1>4, <1>5 DEF MailProgNext

(* Whatever producers and consumers are started, and whichever of them the *)
(* key 'x' ends and when, the words of each producer that are received are *)
(* received each once and in the order it sent them, and none is lost but  *)
(* by a send that finds the place of an exited consumer first in line.     *)
(* Sends find room, as the program's words never fill a mailbox.           *)
THEOREM WordsArriveInOrder == MailProgSpec => WordsInOrder
<1>1. MailProgInv /\ [MailProgNext]_mailProgSysVars => MailProgInv'
  BY MailProgStep
<1>2. MailProgInv /\ [MailProgNext]_mailProgSysVars => InOrder
  BY MailProgStep
<1>3. MailProgSpec => [][InOrder]_mailProgSysVars
  BY <1>1, <1>2, MailProgBegins, PTL DEF MailProgSpec
<1> QED BY <1>3 DEF WordsInOrder, InOrder

=============================================================================
