----------------------------- MODULE Smp_proofs -----------------------------
(* Proofs about the start of the CPUs, for every number of CPUs and every MP *)
(* table.                                                                    *)
EXTENDS Smp, TLAPS

\* The way of a CPU, cut where it changes what other CPUs see.
Fresh == {"off", "real", "entry"}                       \* without a stack
Uncounted == Fresh \cup {"count"}                       \* not in __entry_cnt
Unread == Uncounted \cup {"branch", "boot_map", "boot_paging", "scan", "spin",
                          "boot_sched_read", "ap_map", "ap_paging", "ap_sched_read", "lost"}
Unlisted == Unread \cup {"boot_sched", "ap_sched"}      \* not in thread_group
Alone == Unlisted \cup {"boot_up", "ap_up"}             \* has not started the next
Waits == {"boot_wait", "ap_wait"}                       \* in the loop of cpu_up
Through == {"boot_started", "idle", "dead", "ap_started", "halt"}

BootLabel == {"entry", "count", "branch", "boot_map", "boot_paging", "scan", "spin",
              "boot_sched_read", "boot_sched", "boot_up", "boot_wait",
              "boot_started", "idle", "dead", "lost"}
ApLabel == {"off", "real", "entry", "count", "branch", "ap_map", "ap_paging",
            "ap_sched_read", "ap_sched", "ap_up", "ap_wait", "ap_started", "halt", "lost"}

Labels ==
    /\ pc \in [CPU -> BootLabel \cup ApLabel]
    /\ pc[0] \in BootLabel
    /\ \A c \in CPU \ {0} : pc[c] \in ApLabel

\* The CPUs form a chain: below one that is on its way all wait in cpu_up, and
\* above one that has not started the next all are off.  A CPU that waits has
\* a next one, and one that has reported is through.
Chain ==
    /\ \A c, d \in CPU : c < d /\ pc[d] \notin {"off", "halt"} => pc[c] \in Waits
    /\ \A c, d \in CPU : c < d /\ pc[c] \in Alone => pc[d] = "off"
    /\ \A c \in CPU : pc[c] \in Waits => c + 1 \in CPU
    /\ \A c \in CPU : started[c] => pc[c] \in {"halt", "idle"}

\* So the unlocked counters count the CPUs in order: each CPU takes the stack of
\* its own number, and a higher thread id than those before it.
Counted ==
    /\ \A c \in CPU : pc[c] \in Uncounted <=> entry_cnt <= c
    /\ \A c \in CPU : stack[c] = IF pc[c] \in Fresh THEN -1 ELSE c
    /\ \A c \in CPU : pc[c] \in Unlisted => g_thread_id <= c
    /\ \A c \in CPU : tid[c] = -1 <=> pc[c] \in Unread \/ c \in no_mem
    /\ \A c \in CPU : pc[c] \in Unlisted \ Unread => tid[c] = g_thread_id
    /\ \A c \in CPU : pc[c] \notin Unlisted => tid[c] < g_thread_id
    /\ \A c, d \in CPU : c < d /\ tid[d] # -1 => tid[c] < tid[d]
    /\ group = 0 .. g_thread_id - 1

SmpInv == TypeOK /\ Labels /\ Chain /\ Counted /\ LowMapped /\ (os_start => pc[0] = "idle")

LEMMA CpuType == MAX_CPU \in Nat /\ 0 \in CPU /\ \A c \in CPU : c \in Nat /\ c < MAX_CPU
BY MaxAssumption DEF CPU

LEMMA InitSmpInv == Init => SmpInv
<1> SUFFICES ASSUME Init PROVE SmpInv
  OBVIOUS
<1>1. TypeOK
  <2>1. table \in Tables /\ Len(table) \in Nat
    BY TablesAssumption DEF Init
  <2>2. pos \in 1 .. Len(table) + 1
    BY <2>1 DEF Init
  <2>3. -1 \in -1 .. MAX_CPU - 1 /\ 0 \in 0 .. MAX_CPU
    BY CpuType
  <2> QED
    BY <2>1, <2>2, <2>3 DEF Init, TypeOK
<1>2. Labels /\ Chain /\ LowMapped
  BY CpuType DEF Init, Labels, Chain, LowMapped, BootLabel, ApLabel, Waits, Alone,
                 Unlisted, Unread, Uncounted, Fresh
<1>3. Counted
  BY CpuType DEF Init, Counted, Unlisted, Unread, Uncounted, Fresh
<1> QED
  BY <1>1, <1>2, <1>3 DEF SmpInv, Init

\* A CPU goes from one label to the next.
Move(c, from, to) == pc[c] = from /\ pc' = [pc EXCEPT ![c] = to]

\* What the chain says while CPU c is on its way.
LEMMA OnItsWay ==
    ASSUME SmpInv, NEW c \in CPU, pc[c] \notin {"off", "halt"}
    PROVE  /\ \A d \in CPU : d < c => pc[d] \in Waits
           /\ pc[c] \notin Waits => \A d \in CPU : c < d => pc[d] \in {"off", "halt"}
           /\ pc[c] \in Alone => \A d \in CPU : c < d => pc[d] = "off"
BY CpuType DEF SmpInv, Chain, CPU

\* A step that no other CPU can see keeps chain and counters.
LEMMA QuietMove ==
    ASSUME SmpInv, NEW c \in CPU, NEW from, NEW to, Move(c, from, to),
           IF c = 0 THEN to \in BootLabel ELSE to \in ApLabel,
           \A S \in {Fresh, Uncounted, Unread, Unlisted, Alone, Waits, {"off", "halt"}} :
               from \in S <=> to \in S,
           to \notin {"off", "halt"},
           \A d \in CPU : started'[d] => started[d],
           from \notin {"halt", "idle"},
           UNCHANGED <<no_mem, entry_cnt, stack, g_thread_id, tid, group>>
    PROVE  Labels' /\ Chain' /\ Counted'
<1>1. pc \in [CPU -> BootLabel \cup ApLabel] /\ pc[c] = from
      /\ pc' = [pc EXCEPT ![c] = to]
  BY DEF SmpInv, Labels, Move
<1>2. Labels'
  BY <1>1, CpuType DEF SmpInv, Labels
<1>3. \A d \in CPU : \A S \in {Fresh, Uncounted, Unread, Unlisted, Alone, Waits, {"off", "halt"}} :
          pc'[d] \in S <=> pc[d] \in S
  BY <1>1
<1>4. \A d \in CPU : pc'[d] = "off" <=> pc[d] = "off"
  BY <1>1, <1>3
<1>5. \A d \in CPU : started'[d] => pc'[d] \in {"halt", "idle"}
  BY <1>1 DEF SmpInv, Chain
<1>6. Chain'
  BY <1>3, <1>4, <1>5, CpuType DEF SmpInv, Chain
<1>7. Counted'
  BY <1>3 DEF SmpInv, Counted
<1> QED
  BY <1>2, <1>6, <1>7

\* __entry_cnt stands at the number of the CPU that has not passed it yet.
LEMMA OwnNumber ==
    ASSUME SmpInv, NEW c \in CPU, pc[c] \notin {"off", "halt"}
    PROVE  pc[c] \in Uncounted => entry_cnt = c
<1>4. entry_cnt \in Nat
  BY DEF SmpInv, TypeOK
<1>1. \A d \in CPU : d < c => pc[d] \in Waits
  BY OnItsWay
<1>2. \A d \in CPU : d < c => d < entry_cnt
  <2>1. \A d \in CPU : d < c => pc[d] \notin Uncounted
    BY <1>1 DEF Uncounted, Fresh, Waits
  <2> QED
    BY <2>1, <1>4, CpuType DEF SmpInv, Counted
<1>3. c # 0 => c - 1 \in CPU /\ c - 1 < c
  BY CpuType DEF CPU
<1> QED
  BY <1>2, <1>3, <1>4, CpuType DEF SmpInv, Counted

----------------------------------------------------------------------------
(* kern_entry *)

LEMMA EntryStackInv == ASSUME SmpInv, NEW c \in CPU, EntryStack(c) PROVE SmpInv'
<1>1. /\ pc[c] = "entry" /\ pc' = [pc EXCEPT ![c] = "count"]
      /\ stack' = [stack EXCEPT ![c] = entry_cnt]
      /\ UNCHANGED <<table, early_id, no_mem, pos, init, started, entry_cnt, low, g_thread_id, tid, group, os_start>>
  BY DEF EntryStack, At, Goto, scan, machine
<1>2. entry_cnt = c
  BY <1>1, OwnNumber DEF Uncounted, Fresh
<1>3. TypeOK'
  <2>1. entry_cnt \in -1 .. MAX_CPU - 1
    BY <1>2, CpuType
  <2> QED
    BY <1>1, <2>1 DEF SmpInv, TypeOK
<1>4. Labels' /\ Chain'
  BY <1>1, CpuType DEF SmpInv, Labels, Chain, BootLabel, ApLabel, Waits, Alone,
                       Unlisted, Unread, Uncounted, Fresh
<1>5. Counted'
  <2>1. /\ "entry" \in Fresh /\ "count" \notin Fresh
        /\ \A S \in {Uncounted, Unread, Unlisted} : "entry" \in S <=> "count" \in S
    BY DEF Unlisted, Unread, Uncounted, Fresh
  <2>2. pc'[c] = "count" /\ \A d \in CPU : d # c => pc'[d] = pc[d]
    BY <1>1 DEF SmpInv, Labels
  <2>3. \A d \in CPU : \A S \in {Uncounted, Unread, Unlisted} : pc'[d] \in S <=> pc[d] \in S
    BY <1>1, <2>1, <2>2
  <2>4. \A d \in CPU : stack'[d] = IF pc'[d] \in Fresh THEN -1 ELSE d
    BY <1>1, <1>2, <2>1, <2>2 DEF SmpInv, Counted, TypeOK
  <2> QED
    BY <1>1, <2>3, <2>4 DEF SmpInv, Counted
<1>6. LowMapped' /\ (os_start' => pc'[0] = "idle")
  BY <1>1 DEF SmpInv, LowMapped, Labels
<1> QED
  BY <1>3, <1>4, <1>5, <1>6 DEF SmpInv

LEMMA EntryCountInv == ASSUME SmpInv, NEW c \in CPU, EntryCount(c) PROVE SmpInv'
<1>1. /\ pc[c] = "count" /\ pc' = [pc EXCEPT ![c] = "branch"]
      /\ entry_cnt' = entry_cnt + 1
      /\ UNCHANGED <<table, early_id, no_mem, pos, init, started, stack, low, g_thread_id, tid, group, os_start>>
  BY DEF EntryCount, At, Goto, scan, machine
<1>2. entry_cnt = c
  BY <1>1, OwnNumber DEF Uncounted, Fresh
<1>3. TypeOK'
  BY <1>1, <1>2, CpuType DEF SmpInv, TypeOK
<1>4. Labels' /\ Chain'
  BY <1>1, CpuType DEF SmpInv, Labels, Chain, BootLabel, ApLabel, Waits, Alone,
                       Unlisted, Unread, Uncounted, Fresh
<1>5. Counted'
  <2>1. \A d \in CPU : c < d => pc[d] = "off"
    BY <1>1, OnItsWay DEF Alone, Unlisted, Unread, Uncounted, Fresh
  <2>2. /\ "count" \in Uncounted /\ "branch" \notin Uncounted /\ "off" \in Uncounted
        /\ \A S \in {Fresh, Unread, Unlisted} : "count" \in S <=> "branch" \in S
    BY DEF Unlisted, Unread, Uncounted, Fresh
  <2>3. pc'[c] = "branch" /\ \A d \in CPU : d # c => pc'[d] = pc[d]
    BY <1>1 DEF SmpInv, Labels
  <2>4. \A d \in CPU : \A S \in {Fresh, Unread, Unlisted} : pc'[d] \in S <=> pc[d] \in S
    BY <1>1, <2>2, <2>3
  <2>5. \A d \in CPU : pc'[d] \in Uncounted <=> entry_cnt' <= d
    <3> SUFFICES ASSUME NEW d \in CPU PROVE pc'[d] \in Uncounted <=> c + 1 <= d
      BY <1>1, <1>2
    <3>1. CASE d = c
      BY <3>1, <2>2, <2>3, CpuType
    <3>2. CASE d < c
      BY <3>2, <2>3, <1>2, CpuType DEF SmpInv, Counted
    <3>3. CASE c < d
      BY <3>3, <2>1, <2>2, <2>3, CpuType
    <3> QED
      BY <3>1, <3>2, <3>3, CpuType
  <2> QED
    BY <1>1, <2>4, <2>5 DEF SmpInv, Counted
<1>6. LowMapped' /\ (os_start' => pc'[0] = "idle")
  BY <1>1 DEF SmpInv, LowMapped, Labels
<1> QED
  BY <1>3, <1>4, <1>5, <1>6 DEF SmpInv

\* The CPU that finds 1 in __entry_cnt is CPU 0.
LEMMA EntryBranchInv == ASSUME SmpInv, NEW c \in CPU, EntryBranch(c) PROVE SmpInv'
<1> DEFINE to == IF entry_cnt = 1 THEN "boot_map" ELSE "ap_map"
<1>1. /\ pc[c] = "branch" /\ pc' = [pc EXCEPT ![c] = to]
      /\ UNCHANGED <<table, early_id, no_mem, pos, init, started, entry_cnt, stack, low, g_thread_id,
                     tid, group, os_start>>
  BY DEF EntryBranch, At, Goto, scan, machine, shared
<1>2. entry_cnt = c + 1
  <2>0. entry_cnt \in 0 .. MAX_CPU /\ pc[c] \notin Uncounted
    BY <1>1 DEF SmpInv, TypeOK, Uncounted, Fresh
  <2>1. c < entry_cnt /\ entry_cnt \in 0 .. MAX_CPU
    BY <2>0, CpuType DEF SmpInv, Counted
  <2>2. ASSUME c + 1 < entry_cnt PROVE FALSE
    <3>1. c + 1 \in CPU
      BY <2>1, <2>2, CpuType DEF CPU
    <3>2. pc[c + 1] = "off"
      BY <1>1, <3>1, OnItsWay, CpuType DEF Alone, Unlisted, Unread, Uncounted, Fresh
    <3> QED
      BY <3>1, <3>2, <2>2, <2>1, CpuType DEF SmpInv, Counted, Uncounted, Fresh
  <2> QED
    BY <2>1, <2>2, CpuType
<1>3. IF c = 0 THEN to \in BootLabel ELSE to \in ApLabel
  BY <1>2, CpuType DEF BootLabel, ApLabel
<1>4. Labels' /\ Chain' /\ Counted'
  <2>1. /\ to \notin {"off", "halt"} /\ Move(c, "branch", to)
        /\ \A S \in {Fresh, Uncounted, Unread, Unlisted, Alone, Waits, {"off", "halt"}} :
               "branch" \in S <=> to \in S
    BY <1>1 DEF Move, Alone, Unlisted, Unread, Uncounted, Fresh, Waits
  <2>2. \A d \in CPU : started'[d] => started[d]
    BY <1>1
  <2> HIDE DEF to
  <2> QED
    BY <1>1, <1>3, <2>1, <2>2, QuietMove
<1>5. TypeOK' /\ LowMapped' /\ (os_start' => pc'[0] = "idle")
  BY <1>1 DEF SmpInv, TypeOK, LowMapped, Labels
<1> QED
  BY <1>4, <1>5 DEF SmpInv

----------------------------------------------------------------------------
(* start_paging *)

\* No other CPU is in start_paging.
LEMMA PagingInv ==
    ASSUME SmpInv, NEW c \in CPU, NEW map, NEW paging, NEW read,
           \/ /\ c = 0 /\ map = "boot_map" /\ paging = "boot_paging" /\ read = "scan"
           \/ /\ c # 0 /\ map = "ap_map" /\ paging = "ap_paging" /\ read = "ap_sched_read",
           PagingMap(c, map, paging) \/ PagingUnmap(c, paging, read)
    PROVE  SmpInv'
<1>1. PICK from \in {map, paging}, to \in {paging, read} :
        /\ pc[c] = from /\ pc' = [pc EXCEPT ![c] = to]
        /\ from = map => to = paging /\ low'
        /\ from = paging => to = read
        /\ low' \in BOOLEAN
        /\ UNCHANGED <<table, early_id, no_mem, pos, init, started, entry_cnt, stack, g_thread_id,
                       tid, group, os_start>>
  BY DEF PagingMap, PagingUnmap, At, Goto, scan, machine
<1>2. Labels' /\ Chain' /\ Counted'
  <2>1. /\ to \notin {"off", "halt"} /\ from \notin {"halt", "idle"} /\ Move(c, from, to)
        /\ \A S \in {Fresh, Uncounted, Unread, Unlisted, Alone, Waits, {"off", "halt"}} :
               from \in S <=> to \in S
    BY <1>1 DEF Move, Alone, Unlisted, Unread, Uncounted, Fresh, Waits
  <2>2. IF c = 0 THEN to \in BootLabel ELSE to \in ApLabel
    BY <1>1 DEF BootLabel, ApLabel
  <2>3. \A d \in CPU : started'[d] => started[d]
    BY <1>1
  <2> QED
    BY <1>1, <2>1, <2>2, <2>3, QuietMove
<1>3. \A d \in CPU : d # c => pc[d] \notin {"boot_paging", "ap_paging"}
  <2>1. pc[c] \notin {"off", "halt"} /\ pc[c] \notin Waits
    BY <1>1 DEF Waits
  <2> QED
    BY <2>1, OnItsWay, CpuType DEF Waits
<1>4. LowMapped'
  BY <1>1, <1>3 DEF SmpInv, LowMapped, Labels
<1>5. TypeOK' /\ (os_start' => pc'[0] = "idle")
  BY <1>1 DEF SmpInv, TypeOK, Labels
<1> QED
  BY <1>2, <1>4, <1>5 DEF SmpInv

----------------------------------------------------------------------------
(* smp_init *)

\* Steps of start_kernel that only CPU 0 sees.
LEMMA BootMove ==
    ASSUME SmpInv, NEW from, NEW to, Move(0, from, to),
           \/ from = "scan" /\ to \in {"spin", "boot_sched_read"}
           \/ from = "boot_started" /\ to = "dead",
           UNCHANGED <<table, early_id, no_mem, pos, init, started, entry_cnt, stack, low, g_thread_id,
                       tid, group, os_start>>
    PROVE  SmpInv'
<1>1. /\ to \notin {"off", "halt"} /\ from \notin {"halt", "idle"} /\ to \in BootLabel
      /\ \A S \in {Fresh, Uncounted, Unread, Unlisted, Alone, Waits, {"off", "halt"}} :
             from \in S <=> to \in S
  BY DEF Alone, Unlisted, Unread, Uncounted, Fresh, Waits, BootLabel
<1>2. \A d \in CPU : started'[d] => started[d]
  OBVIOUS
<1>3. Labels' /\ Chain' /\ Counted'
  BY <1>1, <1>2, QuietMove, CpuType
<1>4. TypeOK' /\ LowMapped' /\ (os_start' => pc'[0] = "idle")
  BY DEF SmpInv, TypeOK, LowMapped, Labels, Move
<1> QED
  BY <1>3, <1>4 DEF SmpInv

\* An AP without a page directory
LEMMA PagingLostInv ==
    ASSUME SmpInv, NEW c \in CPU, c # 0, PagingLost(c)
    PROVE  SmpInv'
<1>1. /\ Move(c, "ap_map", "lost")
      /\ UNCHANGED <<table, early_id, no_mem, pos, init, started, entry_cnt, stack, low, g_thread_id,
                     tid, group, os_start>>
  BY DEF PagingLost, At, Goto, Move, scan, machine, shared
<1>2. /\ "lost" \notin {"off", "halt"} /\ "ap_map" \notin {"halt", "idle"} /\ "lost" \in ApLabel
      /\ \A S \in {Fresh, Uncounted, Unread, Unlisted, Alone, Waits, {"off", "halt"}} :
             "ap_map" \in S <=> "lost" \in S
  BY DEF Alone, Unlisted, Unread, Uncounted, Fresh, Waits, ApLabel
<1>3. \A d \in CPU : started'[d] => started[d]
  BY <1>1
<1>4. Labels' /\ Chain' /\ Counted'
  BY <1>1, <1>2, <1>3, QuietMove
<1>5. TypeOK' /\ LowMapped' /\ (os_start' => pc'[0] = "idle")
  BY <1>1 DEF SmpInv, TypeOK, LowMapped, Labels, Move
<1> QED
  BY <1>4, <1>5 DEF SmpInv

LEMMA ScanInv ==
    ASSUME SmpInv, NoMp \/ ScanProcessor \/ ScanSpin \/ ScanOther \/ ScanEnd
    PROVE  SmpInv'
<1>1. CASE NoMp \/ ScanSpin \/ ScanEnd
  <2>1. PICK to \in {"spin", "boot_sched_read"} : Move(0, "scan", to)
    BY <1>1 DEF NoMp, ScanSpin, ScanEnd, More, At, Goto, Move
  <2>2. UNCHANGED <<table, early_id, no_mem, pos, init, started, entry_cnt, stack, low, g_thread_id,
                    tid, group, os_start>>
    BY <1>1 DEF NoMp, ScanSpin, ScanEnd, scan, machine, shared
  <2> QED
    BY <2>1, <2>2, BootMove
<1>2. CASE ScanProcessor \/ ScanOther
  <2>1. /\ pos <= Len(table) /\ pos' = pos + 1
        /\ UNCHANGED <<table, early_id, no_mem, pc, entry_cnt, stack, low, g_thread_id, tid, group, os_start>>
    BY <1>2 DEF ScanProcessor, ScanOther, More, machine, shared
  <2>2. table \in Tables /\ Len(table) \in Nat /\ pos \in 1 .. Len(table)
    BY <2>1, TablesAssumption DEF SmpInv, TypeOK
  <2>3. /\ init' \in [CPU -> BOOLEAN] /\ started' \in [CPU -> BOOLEAN]
        /\ \A d \in CPU : started'[d] => started[d]
    <3>1. CASE ScanOther
      BY <3>1 DEF ScanOther, SmpInv, TypeOK
    <3>2. CASE ScanProcessor
      <4>1. Entry.lapic_id \in CPU
        <5>1. Entry.lapic_id \in Nat /\ Entry.lapic_id < MAX_CPU
          BY <3>2, <2>2, TablesAssumption DEF ScanProcessor, Entry
        <5> QED
          BY <5>1, CpuType DEF CPU
      <4> QED
        BY <3>2, <4>1 DEF ScanProcessor, SmpInv, TypeOK
    <3> QED
      BY <3>1, <3>2, <1>2
  <2>4. TypeOK'
    BY <2>1, <2>2, <2>3 DEF SmpInv, TypeOK
  <2>5. Labels' /\ Chain' /\ Counted' /\ LowMapped' /\ (os_start' => pc'[0] = "idle")
    BY <2>1, <2>3 DEF SmpInv, Labels, Chain, Counted, LowMapped
  <2> QED
    BY <2>4, <2>5 DEF SmpInv
<1> QED
  BY <1>1, <1>2

----------------------------------------------------------------------------
(* schedule_init *)

\* -ENOMEM
LEMMA SchedNoMemInv ==
    ASSUME SmpInv, NEW c \in CPU, NEW from, NEW to,
           \/ c = 0 /\ from = "boot_sched_read" /\ to = "lost"
           \/ c # 0 /\ from = "ap_sched_read" /\ to = "ap_up",
           SchedNoMem(c, from, to)
    PROVE  SmpInv'
<1>1. /\ pc[c] = from /\ pc' = [pc EXCEPT ![c] = to] /\ c \in no_mem
      /\ UNCHANGED <<table, early_id, no_mem, pos, init, started, entry_cnt, stack, low, g_thread_id,
                     tid, group, os_start>>
  BY DEF SchedNoMem, At, Goto, scan, machine, shared
<1>2. Labels' /\ Chain'
  BY <1>1, CpuType DEF SmpInv, Labels, Chain, BootLabel, ApLabel, Waits, Alone,
                       Unlisted, Unread, Uncounted, Fresh
<1>3. Counted'
  <2>1. tid[c] = -1 /\ g_thread_id \in Nat
    BY <1>1 DEF SmpInv, Counted, TypeOK
  <2>2. /\ from \in Unlisted /\ from \in Unread /\ from \notin Uncounted /\ from \notin Fresh
        /\ to \notin Uncounted /\ to \notin Fresh /\ (to \in Unlisted => to \in Unread)
    BY DEF Unlisted, Unread, Uncounted, Fresh
  <2>3. pc \in [CPU -> BootLabel \cup ApLabel]
    BY DEF SmpInv, Labels
  <2>4. \A d \in CPU : /\ pc'[d] \in Uncounted <=> entry_cnt <= d
                       /\ stack[d] = IF pc'[d] \in Fresh THEN -1 ELSE d
                       /\ pc'[d] \in Unlisted => g_thread_id <= d
    BY <1>1, <2>2, <2>3 DEF SmpInv, Counted
  <2>5. \A d \in CPU : /\ tid[d] = -1 <=> pc'[d] \in Unread \/ d \in no_mem
                       /\ pc'[d] \in Unlisted \ Unread => tid[d] = g_thread_id
                       /\ pc'[d] \notin Unlisted => tid[d] < g_thread_id
    BY <1>1, <2>1, <2>2, <2>3 DEF SmpInv, Counted
  <2> QED
    BY <1>1, <2>4, <2>5 DEF SmpInv, Counted
<1>4. TypeOK' /\ LowMapped' /\ (os_start' => pc'[0] = "idle")
  BY <1>1 DEF SmpInv, TypeOK, LowMapped, Labels
<1> QED
  BY <1>2, <1>3, <1>4 DEF SmpInv

LEMMA SchedReadInv ==
    ASSUME SmpInv, NEW c \in CPU, NEW from, NEW to,
           \/ c = 0 /\ from = "boot_sched_read" /\ to = "boot_sched"
           \/ c # 0 /\ from = "ap_sched_read" /\ to = "ap_sched",
           SchedRead(c, from, to)
    PROVE  SmpInv'
<1>1. /\ pc[c] = from /\ pc' = [pc EXCEPT ![c] = to] /\ c \notin no_mem
      /\ tid' = [tid EXCEPT ![c] = g_thread_id]
      /\ UNCHANGED <<table, early_id, no_mem, pos, init, started, entry_cnt, stack, low, g_thread_id,
                     group, os_start>>
  BY DEF SchedRead, At, Goto, scan, machine
<1>2. /\ from \in Unlisted /\ from \in Unread /\ from \notin Uncounted /\ from \notin Fresh
      /\ to \in Unlisted /\ to \notin Unread /\ to \notin Uncounted /\ to \notin Fresh
      /\ from \in Alone /\ from \notin {"off", "halt"}
  BY DEF Unlisted, Unread, Uncounted, Fresh, Alone
<1>3. /\ pc \in [CPU -> BootLabel \cup ApLabel] /\ tid \in [CPU -> -1 .. MAX_CPU - 1]
      /\ g_thread_id \in Nat /\ g_thread_id <= c
  BY <1>1, <1>2 DEF SmpInv, Labels, TypeOK, Counted
<1>4. TypeOK'
  <2>1. g_thread_id \in -1 .. MAX_CPU - 1
    BY <1>3, CpuType
  <2> QED
    BY <1>1, <2>1 DEF SmpInv, TypeOK
<1>5. Labels' /\ Chain'
  BY <1>1, CpuType DEF SmpInv, Labels, Chain, BootLabel, ApLabel, Waits, Alone,
                       Unlisted, Unread, Uncounted, Fresh
<1>6. Counted'
  <2>1. /\ \A d \in CPU : d < c => pc[d] \in Waits
        /\ \A d \in CPU : c < d => pc[d] = "off"
    BY <1>1, <1>2, OnItsWay
  <2>2. \A d \in CPU : d < c => tid[d] < g_thread_id
    <3>1. \A d \in CPU : d < c => pc[d] \notin Unlisted
      BY <2>1 DEF Waits, Unlisted, Unread, Uncounted, Fresh
    <3> QED
      BY <3>1 DEF SmpInv, Counted
  <2>3. \A d \in CPU : c < d => tid[d] = -1
    <3>1. \A d \in CPU : c < d => pc[d] \in Unread
      BY <2>1 DEF Unread, Uncounted, Fresh
    <3> QED
      BY <3>1 DEF SmpInv, Counted
  <2>4. tid'[c] = g_thread_id /\ \A d \in CPU : d # c => tid'[d] = tid[d]
    BY <1>1, <1>3
  <2>5. pc'[c] = to /\ \A d \in CPU : d # c => pc'[d] = pc[d]
    BY <1>1, <1>3
  <2>6. \A d \in CPU : /\ pc'[d] \in Uncounted <=> entry_cnt <= d
                       /\ stack[d] = IF pc'[d] \in Fresh THEN -1 ELSE d
                       /\ pc'[d] \in Unlisted => g_thread_id <= d
    BY <1>1, <1>2, <1>3, <2>5 DEF SmpInv, Counted
  <2>7. \A d \in CPU : /\ tid'[d] = -1 <=> pc'[d] \in Unread \/ d \in no_mem
                       /\ pc'[d] \in Unlisted \ Unread => tid'[d] = g_thread_id
                       /\ pc'[d] \notin Unlisted => tid'[d] < g_thread_id
    BY <1>1, <1>2, <1>3, <2>4, <2>5 DEF SmpInv, Counted
  <2>8. \A a, b \in CPU : a < b /\ tid'[b] # -1 => tid'[a] < tid'[b]
    <3> SUFFICES ASSUME NEW a \in CPU, NEW b \in CPU, a < b, tid'[b] # -1 PROVE tid'[a] < tid'[b]
      OBVIOUS
    <3>1. CASE b = c
      BY <3>1, <2>2, <2>4, CpuType
    <3>2. CASE b # c
      <4>1. a # c
        BY <3>2, <2>3, <2>4
      <4> QED
        BY <4>1, <3>2, <2>4 DEF SmpInv, Counted
    <3> QED
      BY <3>1, <3>2
  <2> QED
    BY <1>1, <2>6, <2>7, <2>8 DEF SmpInv, Counted
<1>7. LowMapped' /\ (os_start' => pc'[0] = "idle")
  BY <1>1 DEF SmpInv, LowMapped, Labels
<1> QED
  BY <1>4, <1>5, <1>6, <1>7 DEF SmpInv

LEMMA SchedWriteInv ==
    ASSUME SmpInv, NEW c \in CPU, NEW from, NEW to,
           \/ c = 0 /\ from = "boot_sched" /\ to = "boot_up"
           \/ c # 0 /\ from = "ap_sched" /\ to = "ap_up",
           SchedWrite(c, from, to)
    PROVE  SmpInv'
<1>1. /\ pc[c] = from /\ pc' = [pc EXCEPT ![c] = to]
      /\ g_thread_id' = tid[c] + 1 /\ group' = group \cup {tid[c]}
      /\ UNCHANGED <<table, early_id, no_mem, pos, init, started, entry_cnt, stack, low, tid, os_start>>
  BY DEF SchedWrite, At, Goto, scan, machine
<1>2. /\ from \in Unlisted /\ to \notin Unlisted /\ "off" \in Unlisted /\ "off" \in Unread
      /\ from \notin Unread /\ to \notin Unread /\ from \notin Uncounted
      /\ to \notin Uncounted /\ from \notin Fresh /\ to \notin Fresh
      /\ from \in Alone /\ from \notin {"off", "halt"}
  BY DEF Unlisted, Unread, Uncounted, Fresh, Alone
<1>3. /\ tid[c] = g_thread_id /\ g_thread_id \in Nat /\ g_thread_id <= c /\ g_thread_id' = g_thread_id + 1
      /\ tid \in [CPU -> -1 .. MAX_CPU - 1]
  BY <1>1, <1>2 DEF SmpInv, Counted, TypeOK
<1>4. group' = 0 .. g_thread_id' - 1
  BY <1>1, <1>3 DEF SmpInv, Counted
<1>5. TypeOK'
  BY <1>1, <1>3, <1>4, CpuType DEF SmpInv, TypeOK
<1>6. Labels' /\ Chain'
  BY <1>1, CpuType DEF SmpInv, Labels, Chain, BootLabel, ApLabel, Waits, Alone,
                       Unlisted, Unread, Uncounted, Fresh
<1>7. Counted'
  <2>1. /\ \A d \in CPU : d < c => pc[d] \in Waits
        /\ \A d \in CPU : c < d => pc[d] = "off"
    BY <1>1, <1>2, OnItsWay
  <2>2. \A d \in CPU : d < c => pc[d] \notin Unlisted
    BY <2>1 DEF Waits, Unlisted, Unread, Uncounted, Fresh
  <2>3. pc'[c] = to /\ \A d \in CPU : d # c => pc'[d] = pc[d]
    BY <1>1 DEF SmpInv, Labels
  <2>4. \A d \in CPU : d = c \/ d < c \/ c < d
    BY CpuType
  <2>5. \A d \in CPU : pc'[d] \in Unlisted => g_thread_id' <= d
    <3> SUFFICES ASSUME NEW d \in CPU, pc'[d] \in Unlisted PROVE g_thread_id + 1 <= d
      BY <1>3
    <3>1. c < d
      BY <1>2, <2>2, <2>3, <2>4, CpuType
    <3> QED
      BY <3>1, <1>3, CpuType
  <2>6. \A d \in CPU : pc'[d] \in Unlisted \ Unread => tid[d] = g_thread_id'
    BY <1>2, <2>1, <2>2, <2>3, <2>4
  <2>7. \A d \in CPU : pc'[d] \notin Unlisted => tid[d] < g_thread_id'
    <3> SUFFICES ASSUME NEW d \in CPU, pc'[d] \notin Unlisted PROVE tid[d] < g_thread_id + 1
      BY <1>3
    <3>1. d # c => tid[d] < g_thread_id
      BY <2>3 DEF SmpInv, Counted
    <3> QED
      BY <3>1, <1>3
  <2>8. \A d \in CPU : /\ pc'[d] \in Uncounted <=> entry_cnt <= d
                       /\ stack[d] = IF pc'[d] \in Fresh THEN -1 ELSE d
                       /\ tid[d] = -1 <=> pc'[d] \in Unread \/ d \in no_mem
    BY <1>1, <1>2, <2>3 DEF SmpInv, Counted
  <2> QED
    BY <1>1, <1>4, <2>5, <2>6, <2>7, <2>8 DEF SmpInv, Counted
<1>8. LowMapped' /\ (os_start' => pc'[0] = "idle")
  BY <1>1 DEF SmpInv, LowMapped, Labels
<1> QED
  BY <1>5, <1>6, <1>7, <1>8 DEF SmpInv

----------------------------------------------------------------------------
(* cpu_up, start_secondary, start_kernel *)

\* Steps that move along the chain and touch no counter.
LEMMA ChainMove ==
    ASSUME SmpInv, NEW c \in CPU, NEW from, NEW to, Move(c, from, to),
           IF c = 0 THEN to \in BootLabel ELSE to \in ApLabel,
           \A S \in {Fresh, Uncounted, Unread, Unlisted} : from \in S <=> to \in S,
           to \notin {"boot_paging", "ap_paging"}, from # "idle",
           started' \in [CPU -> BOOLEAN], os_start' \in BOOLEAN,
           os_start' => os_start \/ (c = 0 /\ to = "idle"),
           Chain',
           UNCHANGED <<table, early_id, no_mem, pos, init, entry_cnt, stack, low, g_thread_id, tid, group>>
    PROVE  SmpInv'
<1>1. pc \in [CPU -> BootLabel \cup ApLabel] /\ pc[c] = from
      /\ pc' = [pc EXCEPT ![c] = to]
  BY DEF SmpInv, Labels, Move
<1>2. Labels'
  BY <1>1, CpuType DEF SmpInv, Labels
<1>3. \A d \in CPU : \A S \in {Fresh, Uncounted, Unread, Unlisted} :
          pc'[d] \in S <=> pc[d] \in S
  BY <1>1
<1>4. Counted'
  BY <1>3 DEF SmpInv, Counted
<1>5. TypeOK' /\ LowMapped'
  BY <1>1 DEF SmpInv, TypeOK, LowMapped
<1>6. os_start' => pc'[0] = "idle"
  BY <1>1, CpuType DEF SmpInv
<1> QED
  BY <1>2, <1>4, <1>5, <1>6 DEF SmpInv

LEMMA CpuUpInv ==
    ASSUME SmpInv, NEW c \in CPU, NEW up, NEW wait, NEW done,
           \/ c = 0 /\ up = "boot_up" /\ wait = "boot_wait" /\ done = "boot_started"
           \/ c # 0 /\ up = "ap_up" /\ wait = "ap_wait" /\ done = "ap_started",
           \/ CpuUp(c, c + 1, up, wait)
           \/ CpuUpNone(c, c + 1, up, done)
           \/ CpuUpDone(c, c + 1, wait, done)
    PROVE  SmpInv'
<1>1. PICK from \in {up, wait}, to \in {wait, done} :
        /\ pc[c] = from /\ pc' = [pc EXCEPT ![c] = to]
        /\ to = wait => from = up /\ c + 1 < MAX_CPU
        /\ from = wait => started[c + 1]
        /\ UNCHANGED <<table, early_id, no_mem, pos, init, started, entry_cnt, stack, low, g_thread_id,
                       tid, group, os_start>>
  BY DEF CpuUp, CpuUpNone, CpuUpDone, At, Goto, scan, machine, shared
<1>2. \A d \in CPU : c < d => pc[d] \in {"off", "halt"}
  <2>1. CASE from = up
    BY <1>1, <2>1, OnItsWay DEF Alone
  <2>2. CASE from = wait
    <3>1. c + 1 \in CPU /\ c < c + 1 /\ pc[c + 1] = "halt"
      <4>1. c + 1 \in CPU /\ c + 1 # 0
        BY <1>1, <2>2, CpuType DEF SmpInv, Chain, Waits
      <4>2. pc[c + 1] \in {"halt", "idle"} /\ pc[c + 1] \in ApLabel
        BY <4>1, <1>1, <2>2 DEF SmpInv, Chain, Labels
      <4> QED
        BY <4>1, <4>2, CpuType DEF ApLabel
    <3>2. \A d \in CPU : c + 1 < d => pc[d] \in {"off", "halt"}
      BY <3>1 DEF SmpInv, Chain, Waits
    <3>3. \A d \in CPU : c < d => d = c + 1 \/ c + 1 < d
      BY CpuType
    <3> QED
      BY <3>1, <3>2, <3>3
  <2> QED
    BY <1>1, <2>1, <2>2
<1>3. Chain'
  <2>1. to \notin Alone /\ to \notin {"off", "halt"} /\ from \notin {"off", "halt", "idle"}
    BY <1>1 DEF Alone, Unlisted, Unread, Uncounted, Fresh
  <2>2. to \in Waits => c + 1 \in CPU
    BY <1>1, CpuType DEF Waits, CPU
  <2>3. pc' = [pc EXCEPT ![c] = to] /\ started' = started /\ pc[c] = from
        /\ pc \in [CPU -> BootLabel \cup ApLabel]
    BY <1>1 DEF SmpInv, Labels
  <2>4. \A a, b \in CPU : a < b /\ pc'[b] \notin {"off", "halt"} => pc'[a] \in Waits
    BY <2>1, <2>3, <1>2 DEF SmpInv, Chain
  <2>5. \A a, b \in CPU : a < b /\ pc'[a] \in Alone => pc'[b] = "off"
    BY <2>1, <2>3, <1>2 DEF SmpInv, Chain
  <2>6. /\ \A a \in CPU : pc'[a] \in Waits => a + 1 \in CPU
        /\ \A a \in CPU : started'[a] => pc'[a] \in {"halt", "idle"}
    BY <2>1, <2>2, <2>3 DEF SmpInv, Chain
  <2> QED
    BY <2>4, <2>5, <2>6 DEF Chain
<1>4. /\ Move(c, from, to) /\ to \notin {"boot_paging", "ap_paging"} /\ from # "idle"
      /\ IF c = 0 THEN to \in BootLabel ELSE to \in ApLabel
      /\ \A S \in {Fresh, Uncounted, Unread, Unlisted} : from \in S <=> to \in S
  BY <1>1 DEF Move, BootLabel, ApLabel, Unlisted, Unread, Uncounted, Fresh
<1>5. started' \in [CPU -> BOOLEAN] /\ os_start' \in BOOLEAN /\ (os_start' => os_start)
  BY <1>1 DEF SmpInv, TypeOK
<1> QED
  BY <1>1, <1>3, <1>4, <1>5, ChainMove

\* The IPI reaches the one CPU that its predecessor waits for.
LEMMA StartupInv ==
    ASSUME SmpInv, NEW c \in CPU, Startup(c)
    PROVE  SmpInv'
<1>1. /\ c > 0 /\ pc[c] = "off" /\ pc' = [pc EXCEPT ![c] = "real"]
      /\ pc[c - 1] \in Waits
      /\ UNCHANGED <<table, early_id, no_mem, pos, init, started, entry_cnt, stack, low, g_thread_id,
                     tid, group, os_start>>
  BY DEF Startup, At, Goto, scan, machine, shared, Waits
<1>2. c - 1 \in CPU /\ c - 1 < c /\ \A d \in CPU : d < c => d = c - 1 \/ d < c - 1
  BY <1>1, CpuType DEF CPU
<1>3. \A d \in CPU : d < c => pc[d] \in Waits
  <2>1. pc[c - 1] \notin {"off", "halt"}
    BY <1>1 DEF Waits
  <2> QED
    BY <1>1, <1>2, <2>1, OnItsWay
<1>4. Chain'
  <2>1. "real" \notin Waits /\ "real" \notin {"halt", "off", "idle"} /\ "off" \in Alone
        /\ \A l \in Waits : l \notin Alone
    BY DEF Waits, Alone, Unlisted, Unread, Uncounted, Fresh
  <2>2. pc \in [CPU -> BootLabel \cup ApLabel]
    BY DEF SmpInv, Labels
  <2>3. \A d \in CPU : c < d => pc[d] = "off"
    BY <1>1, <2>1 DEF SmpInv, Chain
  <2>4. \A a, b \in CPU : a < b /\ pc'[b] \notin {"off", "halt"} => pc'[a] \in Waits
    BY <1>1, <1>3, <2>1, <2>2, <2>3, CpuType DEF SmpInv, Chain
  <2>5. \A a, b \in CPU : a < b /\ pc'[a] \in Alone => pc'[b] = "off"
    BY <1>1, <1>3, <2>1, <2>2, <2>3, CpuType DEF SmpInv, Chain
  <2>6. /\ \A a \in CPU : pc'[a] \in Waits => a + 1 \in CPU
        /\ \A a \in CPU : started'[a] => pc'[a] \in {"halt", "idle"}
    BY <1>1, <2>1, <2>2 DEF SmpInv, Chain
  <2> QED
    BY <2>4, <2>5, <2>6 DEF Chain
<1>5. /\ Move(c, "off", "real") /\ "real" \notin {"boot_paging", "ap_paging"} /\ "off" # "idle"
      /\ IF c = 0 THEN "real" \in BootLabel ELSE "real" \in ApLabel
      /\ \A S \in {Fresh, Uncounted, Unread, Unlisted} : "off" \in S <=> "real" \in S
  BY <1>1 DEF Move, BootLabel, ApLabel, Unlisted, Unread, Uncounted, Fresh
<1>6. started' \in [CPU -> BOOLEAN] /\ os_start' \in BOOLEAN /\ (os_start' => os_start)
  BY <1>1 DEF SmpInv, TypeOK
<1> QED
  BY <1>1, <1>4, <1>5, <1>6, ChainMove

LEMMA TrampolineInv ==
    ASSUME SmpInv, NEW c \in CPU, Trampoline(c)
    PROVE  SmpInv'
<1>1. /\ Move(c, "real", "entry")
      /\ UNCHANGED <<table, early_id, no_mem, pos, init, started, entry_cnt, stack, low, g_thread_id,
                     tid, group, os_start>>
  BY DEF Trampoline, At, Goto, Move, scan, machine, shared
<1>2. /\ "entry" \notin {"off", "halt"} /\ "real" \notin {"halt", "idle"}
      /\ "entry" \in BootLabel /\ "entry" \in ApLabel
      /\ \A S \in {Fresh, Uncounted, Unread, Unlisted, Alone, Waits, {"off", "halt"}} :
             "real" \in S <=> "entry" \in S
  BY DEF Alone, Unlisted, Unread, Uncounted, Fresh, Waits, BootLabel, ApLabel
<1>3. \A d \in CPU : started'[d] => started[d]
  BY <1>1
<1>4. Labels' /\ Chain' /\ Counted'
  BY <1>1, <1>2, <1>3, QuietMove
<1>5. TypeOK' /\ LowMapped' /\ (os_start' => pc'[0] = "idle")
  BY <1>1 DEF SmpInv, TypeOK, LowMapped, Labels, Move
<1> QED
  BY <1>4, <1>5 DEF SmpInv

\* A CPU reports when it is through.
LEMMA EndInv ==
    ASSUME SmpInv, NEW c \in CPU,
           (c # 0 /\ StartSecondaryEnd(c)) \/ (c = 0 /\ StartKernelEnd)
    PROVE  SmpInv'
<1>1. PICK from \in {"ap_started", "boot_started"}, to \in {"halt", "idle"} :
        /\ pc[c] = from /\ pc' = [pc EXCEPT ![c] = to]
        /\ IF c = 0 THEN from = "boot_started" /\ to = "idle"
                    ELSE from = "ap_started" /\ to = "halt"
        /\ started' = [started EXCEPT ![c] = TRUE]
        /\ os_start' = os_start \/ (c = 0 /\ os_start' = TRUE)
        /\ UNCHANGED <<table, early_id, no_mem, pos, init, entry_cnt, stack, low, g_thread_id, tid, group>>
  BY DEF StartSecondaryEnd, StartKernelEnd, At, Goto, scan, machine, shared
<1>2. Chain'
  <2>1. /\ to \notin Alone /\ to \notin Waits /\ from \notin Waits /\ from \notin Alone
        /\ from \notin {"off", "halt"}
    BY <1>1 DEF Alone, Unlisted, Unread, Uncounted, Fresh, Waits
  <2>2. /\ pc \in [CPU -> BootLabel \cup ApLabel] /\ started \in [CPU -> BOOLEAN]
    BY DEF SmpInv, Labels, TypeOK
  <2>3. \A a, b \in CPU : a < b /\ pc'[b] \notin {"off", "halt"} => pc'[a] \in Waits
    <3> SUFFICES ASSUME NEW a \in CPU, NEW b \in CPU, a < b, pc'[b] \notin {"off", "halt"}
                 PROVE  pc'[a] \in Waits
      OBVIOUS
    <3>1. pc[b] \notin {"off", "halt"}
      BY <1>1, <2>1, <2>2
    <3>2. pc[a] \in Waits
      BY <3>1 DEF SmpInv, Chain
    <3> QED
      BY <3>2, <1>1, <2>1, <2>2
  <2>4. \A a, b \in CPU : a < b /\ pc'[a] \in Alone => pc'[b] = "off"
    BY <1>1, <2>1, <2>2 DEF SmpInv, Chain
  <2>5. /\ \A a \in CPU : pc'[a] \in Waits => a + 1 \in CPU
        /\ \A a \in CPU : started'[a] => pc'[a] \in {"halt", "idle"}
    BY <1>1, <2>1, <2>2 DEF SmpInv, Chain
  <2> QED
    BY <2>3, <2>4, <2>5 DEF Chain
<1>3. /\ Move(c, from, to) /\ to \notin {"boot_paging", "ap_paging"} /\ from # "idle"
      /\ IF c = 0 THEN to \in BootLabel ELSE to \in ApLabel
      /\ \A S \in {Fresh, Uncounted, Unread, Unlisted} : from \in S <=> to \in S
  BY <1>1 DEF Move, BootLabel, ApLabel, Unlisted, Unread, Uncounted, Fresh
<1>4. /\ started' \in [CPU -> BOOLEAN] /\ os_start' \in BOOLEAN
      /\ os_start' => os_start \/ (c = 0 /\ to = "idle")
  <2>1. started' \in [CPU -> BOOLEAN]
    BY <1>1 DEF SmpInv, TypeOK
  <2>2. CASE os_start' = os_start
    BY <2>1, <2>2 DEF SmpInv, TypeOK
  <2>3. CASE c = 0 /\ os_start' = TRUE
    BY <2>1, <2>3, <1>1
  <2> QED
    BY <1>1, <2>2, <2>3
<1> QED
  BY <1>1, <1>2, <1>3, <1>4, ChainMove

----------------------------------------------------------------------------

\* Labels keep CPU 0 out of start_secondary.
LEMMA StartSecondaryInv ==
    ASSUME SmpInv, NEW c \in CPU, StartSecondary(c)
    PROVE  SmpInv'
<1>1. pc[c] \in ApLabel \ BootLabel
  BY DEF StartSecondary, PagingMap, PagingLost, PagingUnmap, SchedNoMem, SchedRead, SchedWrite, CpuUp,
         CpuUpDone, CpuUpNone, StartSecondaryEnd, At, ApLabel, BootLabel
<1>2. c # 0
  BY <1>1 DEF SmpInv, Labels
<1>3. CASE PagingMap(c, "ap_map", "ap_paging") \/ PagingUnmap(c, "ap_paging", "ap_sched_read")
  BY <1>2, <1>3, PagingInv
<1>4. CASE SchedRead(c, "ap_sched_read", "ap_sched") \/ SchedNoMem(c, "ap_sched_read", "ap_up")
  BY <1>2, <1>4, SchedReadInv, SchedNoMemInv
<1>5. CASE SchedWrite(c, "ap_sched", "ap_up")
  BY <1>2, <1>5, SchedWriteInv
<1>6. CASE \/ CpuUp(c, c + 1, "ap_up", "ap_wait")
           \/ CpuUpDone(c, c + 1, "ap_wait", "ap_started")
           \/ CpuUpNone(c, c + 1, "ap_up", "ap_started")
  BY <1>2, <1>6, CpuUpInv
<1>7. CASE StartSecondaryEnd(c) \/ PagingLost(c)
  BY <1>2, <1>7, EndInv, PagingLostInv
<1> QED
  BY <1>3, <1>4, <1>5, <1>6, <1>7 DEF StartSecondary

LEMMA StartKernelInv ==
    ASSUME SmpInv, StartKernel
    PROVE  SmpInv'
<1>1. CASE StartKernelFault
  <2>1. /\ Move(0, "boot_started", "dead")
        /\ UNCHANGED <<table, early_id, no_mem, pos, init, started, entry_cnt, stack, low, g_thread_id,
                       tid, group, os_start>>
    BY <1>1 DEF StartKernelFault, At, Goto, Move, scan, machine, shared
  <2> QED
    BY <2>1, BootMove
<1>2. 0 \in CPU /\ 0 + 1 = 1
  BY CpuType
<1>3. CASE PagingMap(0, "boot_map", "boot_paging") \/ PagingUnmap(0, "boot_paging", "scan")
  BY <1>2, <1>3, PagingInv
<1>4. CASE SchedRead(0, "boot_sched_read", "boot_sched") \/ SchedNoMem(0, "boot_sched_read", "lost")
  BY <1>2, <1>4, SchedReadInv, SchedNoMemInv
<1>5. CASE SchedWrite(0, "boot_sched", "boot_up")
  BY <1>2, <1>5, SchedWriteInv
<1>6. CASE \/ CpuUp(0, 1, "boot_up", "boot_wait")
           \/ CpuUpDone(0, 1, "boot_wait", "boot_started")
           \/ CpuUpNone(0, 1, "boot_up", "boot_started")
  <2>1. \/ CpuUp(0, 0 + 1, "boot_up", "boot_wait")
        \/ CpuUpDone(0, 0 + 1, "boot_wait", "boot_started")
        \/ CpuUpNone(0, 0 + 1, "boot_up", "boot_started")
    BY <1>6, <1>2
  <2> QED
    BY <1>2, <2>1, CpuUpInv
<1>7. CASE StartKernelEnd
  BY <1>2, <1>7, EndInv
<1> QED
  BY <1>1, <1>3, <1>4, <1>5, <1>6, <1>7, ScanInv DEF StartKernel

LEMMA SmpInvariant == Spec => []SmpInv
<1>1. Init => SmpInv
  BY InitSmpInv
<1>2. SmpInv /\ [Next]_vars => SmpInv'
  <2> SUFFICES ASSUME SmpInv, [Next]_vars PROVE SmpInv'
    OBVIOUS
  <2>1. CASE UNCHANGED vars
    BY <2>1 DEF vars, SmpInv, TypeOK, Labels, Chain, Counted, LowMapped
  <2>2. ASSUME NEW c \in CPU, Run(c) PROVE SmpInv'
    BY <2>2, TrampolineInv, EntryStackInv, EntryCountInv, EntryBranchInv,
       StartSecondaryInv, StartKernelInv DEF Run, KernEntry
  <2> QED
    BY <2>1, <2>2, StartupInv DEF Next
<1> QED
  BY <1>1, <1>2, PTL DEF Spec

\* For any number of CPUs and any MP table, although no lock protects them: the
\* boot stacks, the ids and list entries of the idle threads are each CPU's own.
THEOREM OwnStackCorrect == Spec => []OwnStack
<1>1. SmpInv => OwnStack
  <2> SUFFICES ASSUME SmpInv PROVE OwnStack
    OBVIOUS
  <2>2. \A c, d \in Entered : c # d => stack[c] # stack[d]
    BY DEF SmpInv, Counted, Entered
  <2>3. \A c, d \in CPU : c # d /\ tid[c] # -1 => tid[c] # tid[d]
    <3> SUFFICES ASSUME NEW c \in CPU, NEW d \in CPU, c # d, tid[c] # -1, tid[c] = tid[d] PROVE FALSE
      OBVIOUS
    <3>1. c < d \/ d < c
      BY CpuType
    <3>2. tid[c] \in Int /\ tid[d] \in Int
      BY DEF SmpInv, TypeOK
    <3>3. tid[c] < tid[d] \/ tid[d] < tid[c]
      BY <3>1 DEF SmpInv, Counted
    <3> QED
      BY <3>2, <3>3
  <2>4. \A c \in CPU \ no_mem :
            pc[c] \in {"ap_up", "ap_wait", "ap_started", "halt"} => tid[c] \in group
    <3> SUFFICES ASSUME NEW c \in CPU \ no_mem, pc[c] \in {"ap_up", "ap_wait", "ap_started", "halt"}
                 PROVE  tid[c] \in group
      OBVIOUS
    <3>1. pc[c] \notin Unlisted /\ pc[c] \notin Unread
      BY DEF Unlisted, Unread, Uncounted, Fresh
    <3>2. tid[c] # -1 /\ tid[c] < g_thread_id /\ g_thread_id \in Nat /\ tid[c] \in -1 .. MAX_CPU - 1
      BY <3>1 DEF SmpInv, Counted, TypeOK
    <3> QED
      BY <3>2 DEF SmpInv, Counted
  <2> QED
    BY <2>2, <2>3, <2>4 DEF OwnStack, SmpInv
<1> QED
  BY <1>1, SmpInvariant, PTL

\* A CPU that executes through pgdir[0] finds it set: no two CPUs are in
\* start_paging at once, whatever the table says.
THEOREM LowMappedCorrect == Spec => []LowMapped
<1>1. SmpInv => LowMapped
  BY DEF SmpInv
<1> QED
  BY <1>1, SmpInvariant, PTL

\* When the shell starts, every other CPU is off or has left start_secondary.
THEOREM UserAfterBootCorrect == Spec => []UserAfterBoot
<1>1. SmpInv => UserAfterBoot
  <2> SUFFICES ASSUME SmpInv, os_start, NEW c \in CPU \ {0} PROVE pc[c] \in {"off", "halt"}
    BY DEF UserAfterBoot
  <2>1. pc[0] \notin Waits /\ 0 < c
    BY CpuType DEF SmpInv, Waits
  <2> QED
    BY <2>1, CpuType DEF SmpInv, Chain
<1> QED
  BY <1>1, SmpInvariant, PTL

=============================================================================
