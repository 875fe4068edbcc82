------------------------------ MODULE SocProbe ------------------------------
(***************************************************************************)
(* The life of the module: soc_miner_init, soc_miner_probe,                *)
(* soc_miner_remove and soc_miner_exit (soc_miner.c), one acquisition per  *)
(* step, with every call that can fail, the users and the interrupts that  *)
(* can come between two steps, and the state of the kernel that outlives   *)
(* the module: the I/O region and the character device's number.           *)
(*                                                                         *)
(* soc_miner_dev is a pointer to one structure: live, freed, or not yet    *)
(* allocated.  What it holds is cleared when it is allocated.              *)
(***************************************************************************)
EXTENDS Integers

CONSTANTS Users       \* processes that open the device

VARIABLES
  pc,                 \* where the load, probe or remove is
  dev,                \* soc_miner_dev
  ready,              \* soc_semaphore is initialised
  semaphore,          \* its count
  sem,                \* sema_init has run on the device mutex
  virt,               \* dev_virtaddr is not 0
  chrdev,             \* who is registered under the major number
  region,             \* who holds the I/O memory region
  proc,               \* the /proc entry exists
  irq,                \* isr is installed
  leaving,            \* soc_miner_exit is under way
  files,              \* what each user has, see Descriptors
  lost                \* ghost: an ioremap has leaving under the region held

device == <<dev, ready, semaphore, sem, virt>>
kernel == <<chrdev, region, proc, irq>>
vars == <<pc, device, kernel, leaving, files, lost>>

\* Opened before probe returned, opened after it, the device was unbound under
\* it, killed in open.
Descriptors == {"none", "early", "late", "orphan", "killed"}

Owners == {"nobody", "soc_miner", "other"}

TypeOK ==
  /\ pc \in {"unloaded", "resource", "alloc", "semaphore", "chrdev", "mutex", "region",
             "ioremap", "proc", "irq", "bound", "unbound",
             "cdev_del", "unregister", "iounmap", "free_irq", "kfree"}
  /\ dev \in {"none", "live", "freed"}
  /\ ready \in BOOLEAN /\ semaphore \in {0, 1}
  /\ sem \in BOOLEAN /\ virt \in BOOLEAN
  /\ chrdev \in Owners /\ region \in Owners
  /\ proc \in BOOLEAN /\ irq \in BOOLEAN
  /\ leaving \in BOOLEAN
  /\ files \in [Users -> Descriptors]
  /\ lost \in BOOLEAN

Init ==
  /\ pc = "unloaded"
  /\ dev = "none" /\ ready = FALSE /\ semaphore = 0 /\ sem = FALSE /\ virt = FALSE
  /\ chrdev = "nobody" /\ region = "nobody"
  /\ proc = FALSE /\ irq = FALSE
  /\ leaving = FALSE /\ lost = FALSE
  /\ files = [u \in Users |-> "none"]

-----------------------------------------------------------------------------
(* soc_miner_init and soc_miner_probe *)

Idle == pc \in {"unloaded", "unbound"}

\* insmod: the platform driver is registered, and the device of the device
\* tree probed.
soc_miner_init ==
  /\ pc = "unloaded"
  /\ pc' = "resource" /\ leaving' = FALSE
  /\ UNCHANGED <<device, kernel, files, lost>>

\* The driver core probes again (sysfs bind).
Bind ==
  /\ pc = "unbound"
  /\ pc' = "resource"
  /\ UNCHANGED <<device, kernel, leaving, files, lost>>

\* The driver stays registered, bound to nothing.
GiveUp == pc' = "unbound"

GetResource ==
  /\ pc = "resource"
  /\ pc' = "alloc" \/ GiveUp
  /\ UNCHANGED <<device, kernel, leaving, files, lost>>

\* Mutant: the structure is not cleared, dev_virtaddr may be anything.
AllocDev_NoMemset ==
  /\ pc = "alloc"
  /\ \/ /\ dev' = "live" /\ ready' = FALSE /\ semaphore' = 0
        /\ sem' = FALSE /\ virt' \in BOOLEAN
        /\ pc' = "semaphore"
     \/ dev' = "none" /\ GiveUp /\ UNCHANGED <<ready, semaphore, sem, virt>>
  /\ UNCHANGED <<kernel, leaving, files, lost>>

AllocDev ==
  /\ pc = "alloc"
  /\ \/ /\ dev' = "live" /\ ready' = FALSE /\ semaphore' = 0
        /\ sem' = FALSE /\ virt' = FALSE
        /\ pc' = "semaphore"
     \/ dev' = "none" /\ GiveUp /\ UNCHANGED <<ready, semaphore, sem, virt>>
  /\ UNCHANGED <<kernel, leaving, files, lost>>

\* Initialised as given, and taken at once.
InitSemaphore ==
  /\ pc = "semaphore"
  /\ ready' = TRUE /\ semaphore' = 0
  /\ pc' = "chrdev"
  /\ UNCHANGED <<dev, sem, virt, kernel, leaving, files, lost>>

GoFail == pc' = "cdev_del"

\* register_chrdev: users can open from here on.
RegisterChrdev ==
  /\ pc = "chrdev"
  /\ \/ chrdev = "nobody" /\ chrdev' = "soc_miner" /\ pc' = "mutex"
     \/ GoFail /\ UNCHANGED chrdev
  /\ UNCHANGED <<device, region, proc, irq, leaving, files, lost>>

\* Mutant: cdev_init, and no sema_init.
InitMutex_NoSemaInit ==
  /\ pc = "mutex"
  /\ pc' = "region"
  /\ UNCHANGED <<device, kernel, leaving, files, lost>>

InitMutex ==
  /\ pc = "mutex"
  /\ sem' = TRUE
  /\ pc' = "region"
  /\ UNCHANGED <<dev, ready, semaphore, virt, kernel, leaving, files, lost>>

RequestRegion ==
  /\ pc = "region"
  /\ \/ /\ region = "nobody"
        /\ region' = "soc_miner"
        /\ pc' = "ioremap"
     \/ region # "nobody" /\ GoFail /\ UNCHANGED region
  /\ UNCHANGED <<device, chrdev, proc, irq, leaving, files, lost>>

\* Nobody looks whether it worked.
Ioremap ==
  /\ pc = "ioremap"
  /\ \/ virt' = TRUE /\ UNCHANGED lost
     \/ virt' = FALSE /\ lost' = TRUE
  /\ pc' = "proc"
  /\ UNCHANGED <<dev, ready, semaphore, sem, kernel, leaving, files>>

CreateProcEntry ==
  /\ pc = "proc"
  /\ proc' \in BOOLEAN
  /\ pc' = "irq"
  /\ UNCHANGED <<device, chrdev, region, irq, leaving, files, lost>>

\* A failure is printed, no more.
RequestIrq ==
  /\ pc = "irq"
  /\ irq' \in BOOLEAN
  /\ pc' = "bound"
  /\ UNCHANGED <<device, chrdev, region, proc, leaving, files, lost>>

-----------------------------------------------------------------------------
(* soc_miner_remove, called by soc_miner_exit or by probe when it fails *)

\* rmmod is refused while a descriptor keeps the module in use.
soc_miner_exit ==
  /\ \A u \in Users : files[u] = "none"
  /\ \/ pc = "bound" /\ pc' = "cdev_del"
     \/ pc = "unbound" /\ pc' = "unloaded"
  /\ leaving' = TRUE
  /\ UNCHANGED <<device, kernel, files, lost>>

\* The driver core takes the device away (sysfs unbind), whoever has it open.
Unbind ==
  /\ pc = "bound"
  /\ pc' = "cdev_del"
  /\ files' = [u \in Users |-> IF files[u] = "late" THEN "orphan" ELSE files[u]]
  /\ UNCHANGED <<device, kernel, leaving, lost>>

\* cdev_del, whose cdev was never added, and remove_proc_entry.
RemoveProcEntry ==
  /\ pc = "cdev_del"
  /\ proc' = FALSE
  /\ pc' = "unregister"
  /\ UNCHANGED <<device, chrdev, region, irq, leaving, files, lost>>

\* Mutant: the number is kept.
UnregisterChrdev_Never ==
  /\ pc = "unregister"
  /\ pc' = "iounmap"
  /\ UNCHANGED <<device, kernel, leaving, files, lost>>

\* By number and name: whoever holds the major number loses it.
UnregisterChrdev ==
  /\ pc = "unregister"
  /\ chrdev' = "nobody"
  /\ pc' = "iounmap"
  /\ UNCHANGED <<device, region, proc, irq, leaving, files, lost>>

Iounmap ==
  /\ pc = "iounmap"
  /\ IF virt THEN virt' = FALSE /\ region' = "nobody" ELSE UNCHANGED <<virt, region>>
  /\ pc' = "free_irq"
  /\ UNCHANGED <<dev, ready, semaphore, sem, chrdev, proc, irq, leaving, files, lost>>

\* Mutant: the structure goes before the handler that uses it.
FreeIrq_AfterKfree ==
  /\ pc = "free_irq"
  /\ dev' = "freed"
  /\ pc' = "kfree"
  /\ UNCHANGED <<ready, semaphore, sem, virt, kernel, leaving, files, lost>>

\* Without a handler of this device on the line, free_irq only warns.
FreeIrq ==
  /\ pc = "free_irq"
  /\ irq' = FALSE
  /\ pc' = "kfree"
  /\ UNCHANGED <<device, chrdev, region, proc, leaving, files, lost>>

Kfree ==
  /\ pc = "kfree"
  /\ dev' = "freed"
  /\ pc' = IF leaving THEN "unloaded" ELSE "unbound"
  /\ UNCHANGED <<ready, semaphore, sem, virt, kernel, leaving, files, lost>>

Driver ==
  \/ GetResource \/ AllocDev \/ InitSemaphore \/ RegisterChrdev \/ InitMutex
  \/ RequestRegion \/ Ioremap \/ CreateProcEntry \/ RequestIrq
  \/ RemoveProcEntry \/ UnregisterChrdev \/ Iounmap \/ FreeIrq \/ Kfree

-----------------------------------------------------------------------------
(* Users, interrupts, another driver *)

\* down_interruptible on a mutex that is not initialised kills the caller,
\* whose reference to the module is never dropped.
Open(u) ==
  /\ chrdev = "soc_miner" /\ files[u] = "none"
  /\ files' = [files EXCEPT ![u] = IF ~sem THEN "killed"
                                   ELSE IF pc = "bound" THEN "late" ELSE "early"]
  /\ UNCHANGED <<pc, device, kernel, leaving, lost>>

Close(u) ==
  /\ files[u] \in {"early", "late", "orphan"}
  /\ files' = [files EXCEPT ![u] = "none"]
  /\ UNCHANGED <<pc, device, kernel, leaving, lost>>

\* Mutant: the semaphore was not made binary.
Isr_Counting ==
  /\ irq
  /\ semaphore' = semaphore + 1
  /\ UNCHANGED <<pc, dev, ready, sem, virt, kernel, leaving, files, lost>>

\* The line is shared: the handler runs whoever raised the interrupt.
Isr ==
  /\ irq
  /\ semaphore' = 1
  /\ UNCHANGED <<pc, dev, ready, sem, virt, kernel, leaving, files, lost>>

\* Another driver takes the major number or the region, or gives it back.
OtherDriver ==
  /\ \/ chrdev = "nobody" /\ chrdev' = "other" /\ UNCHANGED region
     \/ chrdev = "other" /\ chrdev' = "nobody" /\ UNCHANGED region
     \/ region = "nobody" /\ region' = "other" /\ UNCHANGED chrdev
     \/ region = "other" /\ region' = "nobody" /\ UNCHANGED chrdev
  /\ UNCHANGED <<pc, device, proc, irq, leaving, files, lost>>

Next ==
  \/ soc_miner_init \/ Bind \/ Driver \/ soc_miner_exit \/ Unbind
  \/ \E u \in Users : Open(u) \/ Close(u)
  \/ Isr \/ OtherDriver

Spec == Init /\ [][Next]_vars

-----------------------------------------------------------------------------
(* Properties *)

\* Whoever can be called finds what it uses: the handler a live structure
\* with its semaphore initialised, a reader of /proc also the mutex, and a
\* user of the character device a live structure.
CallbacksSafe ==
  /\ irq => dev = "live" /\ ready
  /\ proc => dev = "live" /\ sem
  /\ chrdev = "soc_miner" => dev = "live"

\* Nobody is killed who opens a bound device, and a descriptor opened then
\* refers to a live structure until it is closed or the device is unbound
\* under it.  (An open before sema_init is killed, and one before the end of
\* a probe that fails is left with a freed structure.)
LateFilesSafe ==
  /\ pc = "bound" => sem
  /\ \A u \in Users : files[u] = "late" => dev = "live" /\ sem

\* A probe that returned 0 has its device number and its region; while the
\* driver is not bound nothing is registered or mapped, no memory is
\* allocated, and the region is held only if an ioremap has failed.
OwnsExactly ==
  /\ pc = "bound" => chrdev = "soc_miner" /\ region = "soc_miner"
  /\ Idle => /\ dev # "live" /\ ~irq /\ ~proc
             /\ chrdev # "soc_miner"
             /\ region = "soc_miner" => lost

\* The driver never releases another driver's region.
OthersRegionKept == [][region = "other" /\ Driver => region' = "other"]_vars
=============================================================================
