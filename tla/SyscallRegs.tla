----------------------------- MODULE SyscallRegs -----------------------------
(***************************************************************************)
(* The system call wrappers: the assembly of syscall.c, which moves the    *)
(* number of the call and its arguments into eax, ebx and ecx, enters the  *)
(* kernel, and takes the result out of eax.                                *)
(*                                                                         *)
(* Where the arguments are when the assembly begins is the choice of the   *)
(* compiler: in memory, or in any register that the wrapper does not       *)
(* declare as changed.  The choice is made at the call here; a property    *)
(* holds if it holds for every choice a build may make.                    *)
(*                                                                         *)
(* A definition <name>_<change> is a mutated form of <name> that some      *)
(* property refutes; the model does not use it.                            *)
(***************************************************************************)
EXTENDS Integers, Sequences

CONSTANTS
  Wrappers,     \* the wrappers that are called
  OperandRegs   \* OperandRegs[w]: the registers the compiler may pick for
                \* the arguments of w

Registers == {"eax", "ebx", "ecx", "edx", "esi", "edi"}

NoArgument == {"yield", "sys_get_time", "proc_exit", "proc_get_pid", "mutex_alloc"}
OneArgument == {"sleep", "proc_get_name", "mutex_free", "mutex_lock", "mutex_unlock"}
TwoArguments == {"proc_exec", "msg_send", "msg_recv"}

ASSUME WrappersAssumption ==
  /\ Wrappers \subseteq NoArgument \cup OneArgument \cup TwoArguments
  /\ OperandRegs \in [Wrappers -> SUBSET Registers]

VARIABLES
  regs,     \* the registers
  memory,   \* the stack slots of the arguments
  wrapper,  \* the wrapper at work
  place,    \* place[k]: where its k-th argument is: a register, or "memory"
  before,   \* the registers as the assembly found them; not in the code
  step      \* the next instruction

regVars == <<regs, memory, wrapper, place, before, step>>

-----------------------------------------------------------------------------

ArgumentCount(w) == IF w \in TwoArguments THEN 2 ELSE IF w \in OneArgument THEN 1 ELSE 0

\* The registers each wrapper declares.
Clobbers(w) ==
  IF w \in OneArgument \cup {"mutex_alloc"} THEN {"eax", "ebx"} ELSE {"eax"}

Places(w) == (OperandRegs[w] \ Clobbers(w)) \cup {"memory"}

\* Two arguments do not share a register.
Call(w, p) ==
  /\ step = "idle"
  /\ wrapper' = w
  /\ place' = p
  /\ memory' = [k \in DOMAIN p |-> <<"argument", k>>]
  /\ regs' = [r \in Registers |->
                IF \E k \in DOMAIN p : p[k] = r
                THEN <<"argument", CHOOSE k \in DOMAIN p : p[k] = r>>
                ELSE <<"caller's", r>>]
  /\ before' = regs'
  /\ step' = "number"

Operand(k) == IF place[k] = "memory" THEN memory[k] ELSE regs[place[k]]

\* movl %1, %%eax: the number is an immediate operand.
LoadNumber ==
  /\ step = "number"
  /\ regs' = [regs EXCEPT !["eax"] = <<"number", wrapper>>]
  /\ step' = IF ArgumentCount(wrapper) = 0 THEN "trap" ELSE "first"
  /\ UNCHANGED <<memory, wrapper, place, before>>

\* movl %2, %%ebx
LoadFirst ==
  /\ step = "first"
  /\ regs' = [regs EXCEPT !["ebx"] = Operand(1)]
  /\ step' = IF ArgumentCount(wrapper) = 1 THEN "trap" ELSE "second"
  /\ UNCHANGED <<memory, wrapper, place, before>>

LoadSecond_IntoEbx ==
  /\ step = "second"
  /\ regs' = [regs EXCEPT !["ebx"] = Operand(2)]
  /\ step' = "trap"
  /\ UNCHANGED <<memory, wrapper, place, before>>

\* movl %3, %%ecx
LoadSecond ==
  /\ step = "second"
  /\ regs' = [regs EXCEPT !["ecx"] = Operand(2)]
  /\ step' = "trap"
  /\ UNCHANGED <<memory, wrapper, place, before>>

\* int $0x80: the trapframe brings every register back but eax, which holds
\* the result, or for a call that was unscheduled what it held before.
Trap ==
  /\ step = "trap"
  /\ \/ regs' = [regs EXCEPT !["eax"] = <<"result", wrapper>>]
     \/ UNCHANGED regs
  /\ step' = "returned"
  /\ UNCHANGED <<memory, wrapper, place, before>>

Return ==
  /\ step = "returned"
  /\ step' = "idle"
  /\ UNCHANGED <<regs, memory, wrapper, place, before>>

RegInit ==
  /\ regs = [r \in Registers |-> <<"caller's", r>>]
  /\ before = regs
  /\ memory = <<>>
  /\ wrapper \in Wrappers
  /\ place = <<>>
  /\ step = "idle"

RegNext ==
  \/ \E w \in Wrappers : \E p \in [1 .. ArgumentCount(w) -> Places(w)] :
       (Len(p) = 2 /\ p[1] = p[2] => p[1] = "memory") /\ Call(w, p)
  \/ LoadNumber
  \/ LoadFirst
  \/ LoadSecond
  \/ Trap
  \/ Return

RegSpec == RegInit /\ [][RegNext]_regVars

-----------------------------------------------------------------------------
(* Properties.                                                             *)

(* What the caller passed arrives in the registers kisr_syscall reads, in  *)
(* whichever register it was before ("Mailbox number to send to", "Pointer *)
(* to the message data structure", syscall.c:201-202).                     *)
ArgumentsArrive ==
  step = "trap" =>
    /\ regs["eax"] = <<"number", wrapper>>
    /\ ArgumentCount(wrapper) >= 1 => regs["ebx"] = <<"argument", 1>>
    /\ ArgumentCount(wrapper) = 2 => regs["ecx"] = <<"argument", 2>>

(* The assembly changes only registers the wrapper declares, so that what  *)
(* its callers keep in the others survives (the lists of syscall.c, such   *)
(* as line 68).                                                            *)
OnlyDeclaredChange ==
  step = "returned" => \A r \in Registers \ Clobbers(wrapper) : regs[r] = before[r]

=============================================================================
