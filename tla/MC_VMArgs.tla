------------------------------ MODULE MC_VMArgs ------------------------------
(***************************************************************************)
(* The argument-staging protocol of vm_exec (ARG, then CALL or CALL_HOST,  *)
(* vm.c:909-950) against what the guest code means by it.  The history    *)
(* variable intent records, for the running bytecode activation, the       *)
(* value each ARG since its last call named for its slot; vm->arg_buf and  *)
(* vm->arg_count are compared with it.                                     *)
(***************************************************************************)
EXTENDS MC_VM

VARIABLE intent    \* [slot -> value or NoArg]: what the running activation staged

NoArg  == [t |-> "unstaged", v |-> 0]    \* not a rune_val_t the VM makes
NoArgs == [k \in 0..MaxParams - 1 |-> NoArg]

(* One past the highest slot the activation staged.                       *)
IntentCount ==
  LET used == {k \in 0..MaxParams - 1 : intent[k] # NoArg}
  IN IF used = {} THEN 0 ELSE Max(used) + 1

(* An activation's staging ends when it calls (the callee's activation     *)
(* starts with nothing staged), fails or returns: any step that pushes or  *)
(* pops cstack or puts a result in flight.  An ARG step of the running     *)
(* activation adds R(s1) for slot dst.                                     *)
ArgIntent ==
  intent' =
    IF cstack' # cstack \/ ret' # ret THEN NoArgs
    ELSE IF ExecRunning /\ InCode /\ IW.op = "ARG" /\ IW.dst < MaxParams
         THEN [intent EXCEPT ![IW.dst] = R(IW.s1)]
         ELSE intent

ArgSpec == Init /\ intent = NoArgs /\ [][Next /\ ArgIntent]_<<vars, intent>>

(* Spec section 4.2: vm->arg_buf[0..arg_count) is what the running         *)
(* activation staged since its last CALL or CALL_HOST and nothing else:    *)
(* arg_count is one past the highest slot an ARG named, and every such     *)
(* slot holds the register that ARG named.  Broken by an ARG that also     *)
(* writes another slot, and by arguments a failed activation staged and    *)
(* left behind for the next CALL (a trap, FUEL or BOUNDS after ARG, or     *)
(* CALL_HOST returning NOIMPORT before it clears arg_count).               *)
StagedArgsAsWritten ==
  /\ argCount = IntentCount
  /\ \A k \in 0..MaxParams - 1 : intent[k] # NoArg => argBuf[k] = intent[k]
====
