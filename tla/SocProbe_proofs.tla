---------------------------- MODULE SocProbe_proofs ----------------------------
(***************************************************************************)
(* What a probe acquires and a remove gives back: theorems about SocProbe  *)
(* for any set of users, with every call failing or not, and another       *)
(* driver that takes what is free.                                         *)
(*                                                                         *)
(* The properties speak of a bound or an idle driver.  The invariant       *)
(* below says for every step of probe and remove what exists there, and    *)
(* that the only trace of a mapping is the region under it.                *)
(***************************************************************************)
EXTENDS SocProbe, TLAPS

Probed == {"mutex", "region", "ioremap", "proc", "irq", "bound"}
Removing == {"cdev_del", "unregister", "iounmap", "free_irq", "kfree"}

\* The structure lives from kmalloc to kfree, its parts from their
\* initialisation.
Structure ==
  /\ dev = "live" <=> pc \in {"semaphore", "chrdev"} \/ pc \in Probed \/ pc \in Removing
  /\ pc = "chrdev" \/ pc \in Probed \/ pc \in Removing => ready
  /\ pc \in Probed => sem \/ pc = "mutex"

\* Who can be called, and when.
Callable ==
  /\ proc => sem /\ pc \in {"irq", "bound", "cdev_del"}
  /\ irq => pc = "bound" \/ (pc \in Removing /\ pc # "kfree")
  /\ pc \in Probed => chrdev = "soc_miner"
  /\ chrdev = "soc_miner" => pc \in Probed \/ pc \in {"cdev_del", "unregister"}

\* The region is under the mapping, about to be mapped, or left behind.
Mapping ==
  /\ virt => /\ region = "soc_miner"
             /\ pc \in {"proc", "irq", "bound", "cdev_del", "unregister", "iounmap"}
  /\ pc \in {"ioremap", "proc", "irq", "bound"} => region = "soc_miner"
  /\ region = "soc_miner" => virt \/ lost \/ pc = "ioremap"

\* A late descriptor and a bound device go together.
LateBound == \A u \in Users : files[u] = "late" => pc = "bound"

ProbeInv == TypeOK /\ Structure /\ Callable /\ Mapping /\ LateBound

\* Before the first insmod there is nothing.
LEMMA InitInv == Init => ProbeInv
BY DEF Init, ProbeInv, TypeOK, Structure, Callable, Mapping, LateBound, Descriptors,
       Owners, Probed, Removing

\* No step of probe, remove, a user, an interrupt or another driver breaks
\* ProbeInv.
LEMMA StepInv == ProbeInv /\ [Next]_vars => ProbeInv'
<1> SUFFICES ASSUME ProbeInv, [Next]_vars PROVE ProbeInv'
  OBVIOUS
<1> USE DEF ProbeInv, TypeOK, Structure, Callable, Mapping, LateBound, Descriptors,
            Owners, Probed, Removing, device, kernel, GiveUp, GoFail
<1>1. CASE soc_miner_init
  BY <1>1 DEF soc_miner_init
<1>2. CASE Bind
  BY <1>2 DEF Bind
<1>3. CASE GetResource
  BY <1>3 DEF GetResource
<1>4. CASE AllocDev
  <2>1. CASE dev' = "live"
    BY <1>4, <2>1 DEF AllocDev
  <2>2. CASE dev' = "none"
    BY <1>4, <2>2 DEF AllocDev
  <2>3. QED
    BY <1>4, <2>1, <2>2 DEF AllocDev
<1>5. CASE InitSemaphore
  BY <1>5 DEF InitSemaphore
<1>6. CASE RegisterChrdev
  BY <1>6 DEF RegisterChrdev
<1>7. CASE InitMutex
  BY <1>7 DEF InitMutex
<1>8. CASE RequestRegion
  BY <1>8 DEF RequestRegion
<1>9. CASE Ioremap
  BY <1>9 DEF Ioremap
<1>10. CASE CreateProcEntry
  BY <1>10 DEF CreateProcEntry
<1>11. CASE RequestIrq
  BY <1>11 DEF RequestIrq
<1>12. CASE soc_miner_exit
  BY <1>12 DEF soc_miner_exit
<1>13. CASE Unbind
  BY <1>13 DEF Unbind
<1>14. CASE RemoveProcEntry
  BY <1>14 DEF RemoveProcEntry
<1>15. CASE UnregisterChrdev
  BY <1>15 DEF UnregisterChrdev
<1>16. CASE Iounmap
  BY <1>16 DEF Iounmap
<1>17. CASE FreeIrq
  BY <1>17 DEF FreeIrq
<1>18. CASE Kfree
  BY <1>18 DEF Kfree
<1>19. ASSUME NEW u \in Users, Open(u) \/ Close(u) PROVE ProbeInv'
  BY <1>19 DEF Open, Close
<1>20. CASE Isr
  BY <1>20 DEF Isr
<1>21. CASE OtherDriver
  BY <1>21 DEF OtherDriver
<1>22. CASE UNCHANGED vars
  BY <1>22 DEF vars
<1>23. QED
  BY <1>1, <1>2, <1>3, <1>4, <1>5, <1>6, <1>7, <1>8, <1>9, <1>10, <1>11,
     <1>12, <1>13, <1>14, <1>15, <1>16, <1>17, <1>18, <1>19, <1>20,
     <1>21, <1>22
  DEF Next, Driver

\* ProbeInv always holds.
LEMMA InvAlways == Spec => []ProbeInv
BY InitInv, StepInv, PTL DEF Spec

\* The type invariant; in particular the semaphore stays binary.
THEOREM TypeCorrect == Spec => []TypeOK
<1>1. ProbeInv => TypeOK
  BY DEF ProbeInv
<1>2. QED
  BY <1>1, InvAlways, PTL

\* The interrupt handler, a reader of /proc and an open never meet a
\* structure that is gone, or a part of it that is not there yet.
THEOREM Callbacks == Spec => []CallbacksSafe
<1>1. ProbeInv => CallbacksSafe
  BY DEF ProbeInv, CallbacksSafe, Structure, Callable, Probed, Removing
<1>2. QED
  BY <1>1, InvAlways, PTL

\* A descriptor of a bound device refers to a live structure.
THEOREM LateFiles == Spec => []LateFilesSafe
<1>1. ProbeInv => LateFilesSafe
  BY DEF ProbeInv, LateFilesSafe, Structure, LateBound, Probed, Removing
<1>2. QED
  BY <1>1, InvAlways, PTL

\* Probe acquires all it reports, and after a remove or a failed probe
\* nothing is left but the region of a failed ioremap.
THEOREM Ownership == Spec => []OwnsExactly
<1>1. ProbeInv => OwnsExactly
  BY DEF ProbeInv, OwnsExactly, Structure, Callable, Mapping, Idle, Probed, Removing
<1>2. QED
  BY <1>1, InvAlways, PTL

\* Only Iounmap releases a region, and what is mapped is the driver's own.
THEOREM RegionKept == Spec => OthersRegionKept
<1>1. ProbeInv /\ region = "other" /\ Driver => region' = "other"
  BY DEF ProbeInv, Mapping, Driver, GetResource, AllocDev, InitSemaphore,
         RegisterChrdev, InitMutex, RequestRegion, Ioremap, CreateProcEntry, RequestIrq,
         RemoveProcEntry, UnregisterChrdev, Iounmap, FreeIrq, Kfree, kernel
<1>2. ProbeInv /\ [Next]_vars => [region = "other" /\ Driver => region' = "other"]_vars
  BY <1>1
<1>3. QED
  BY <1>2, InvAlways, PTL DEF Spec, OthersRegionKept
=============================================================================
