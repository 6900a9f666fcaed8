------------------------------- MODULE VMApi -------------------------------
(***************************************************************************)
(* What one Rune VM promises its embedder (src/src/vm/vm.c, the public     *)
(* rune_vm_* functions), with the interpreter hidden.  rune_vm_init and    *)
(* rune_vm_call are a start step and, when guest code runs, a later        *)
(* return step; everything vm_exec and host callbacks do in between,       *)
(* nested calls and re-entry included, is invisible here.                  *)
(*                                                                         *)
(*  - registrations are accepted until the VM is initialized, and then    *)
(*    rejected with BADMODULE;                                             *)
(*  - rune_vm_init fails with NOIMPORT, leaving the VM as it was, unless   *)
(*    every import has a registration; it may fail with OOM or BOUNDS      *)
(*    before it sets initialized; once initialized is set the VM stays     *)
(*    initialized, and _init may still fail;                               *)
(*  - a call on a VM that is not initialized returns BADMODULE and runs    *)
(*    nothing; a call on an initialized VM returns OK or an error of       *)
(*    execution, never BADMODULE;                                          *)
(*  - rune_vm_refuel only sets the budget.                                 *)
(***************************************************************************)
EXTENDS Naturals, Sequences

CONSTANTS
  Needed,       \* the names of the module's imports
  HostFns,      \* registrations the embedder may make: [name, cb]
  FuelLimits    \* the fuel limits the VM may be created with

VARIABLES
  registered,   \* the registrations, in order
  initialized,  \* vm->initialized
  op,           \* "idle", or the operation in progress: "init" or "call"
  err,          \* the error code the latest operation returned
  fuel          \* the fuel limit

vars == <<registered, initialized, op, err, fuel>>

(* The errors a call of guest code can end with: its own traps, NOIMPORT   *)
(* for a CALL_HOST index past import_count, OOM for a register window      *)
(* calloc cannot get, the TYPE and BOUNDS of examples/host.c's callbacks,  *)
(* and the NOEXPORT of a re-entrant rune_vm_call that a callback passes    *)
(* on.                                                                     *)
ExecErrs ==
  {"OK", "STACKOVERFLOW", "TRAP", "FUEL", "BOUNDS", "DIVZERO", "BADOPCODE",
   "NOIMPORT", "OOM", "TYPE", "NOEXPORT"}

Idle == op = "idle"

(* Every import has a registration of its name.                           *)
Resolves == \A n \in Needed : \E j \in 1..Len(registered) : registered[j].name = n

Init ==
  /\ registered = <<>>
  /\ initialized = FALSE
  /\ op = "idle"
  /\ err = "OK"
  /\ fuel \in FuelLimits

(* rune_vm_register                                                        *)
Register(h) ==
  /\ Idle
  /\ IF initialized
       THEN err' = "BADMODULE" /\ UNCHANGED registered
       ELSE err' = "OK" /\ registered' = Append(registered, h)
  /\ UNCHANGED <<initialized, op, fuel>>

(* rune_vm_init returning before it sets initialized.                      *)
InitFails ==
  /\ Idle
  /\ err' \in IF Resolves THEN {"OOM", "BOUNDS"} ELSE {"NOIMPORT"}
  /\ UNCHANGED <<registered, initialized, op, fuel>>

(* rune_vm_init setting initialized, then returning OK or running _init.  *)
InitSucceeds ==
  /\ Idle /\ Resolves
  /\ initialized' = TRUE
  /\ \/ err' = "OK" /\ UNCHANGED op
     \/ op' = "init" /\ UNCHANGED err
  /\ UNCHANGED <<registered, fuel>>

(* rune_vm_call is entered.                                                *)
Call ==
  /\ Idle
  /\ op' = "call"
  /\ UNCHANGED <<registered, initialized, err, fuel>>

(* The operation in progress returns.                                      *)
Return ==
  /\ ~Idle
  /\ op' = "idle"
  /\ err' \in IF op = "call" /\ ~initialized THEN {"BADMODULE"} ELSE ExecErrs
  /\ UNCHANGED <<registered, initialized, fuel>>

(* rune_vm_refuel                                                          *)
Refuel ==
  /\ Idle
  /\ fuel' \in Nat
  /\ UNCHANGED <<registered, initialized, op, err>>

Next ==
  \/ \E h \in HostFns : Register(h)
  \/ InitFails \/ InitSucceeds \/ Call \/ Return \/ Refuel

Spec == Init /\ [][Next]_vars
====
