----------------------------- MODULE VaultProofs -----------------------------
(***************************************************************************)
(* Theorems about crypto-erasure, for every set of scopes and threads, any *)
(* number of keys, rows and faults, on the desktop and on the Hub.         *)
(***************************************************************************)
EXTENDS ContentVault, TLAPS

(* Writing one key file keeps the data root well formed. *)
LEMMA KeyWriteType ==
  ASSUME disk \in Disks, NEW s \in Scopes, NEW g \in Nat,
         disk' = [disk EXCEPT !.key[s] = g]
  PROVE  /\ disk' \in Disks
         /\ disk'.key = [disk.key EXCEPT ![s] = g]
         /\ disk'.tomb = disk.tomb /\ disk'.ledger = disk.ledger
         /\ disk'.rows = disk.rows
BY DEF Disks

(* Appending a sealed row keeps the data root well formed. *)
LEMMA RowWriteType ==
  ASSUME disk \in Disks, NEW s \in Scopes, NEW g \in Nat,
         disk' = [disk EXCEPT !.rows[s] = Append(@, g)]
  PROVE  /\ disk' \in Disks
         /\ disk'.key = disk.key
         /\ disk'.tomb = disk.tomb /\ disk'.ledger = disk.ledger
<1>1. disk.rows \in [Scopes -> Seq(Nat)]
  BY DEF Disks
<1>2. Append(disk.rows[s], g) \in Seq(Nat)
  BY <1>1
<1> QED
  BY <1>1, <1>2 DEF Disks

(* A step of a thread that names a scope and a key leaves a well-formed    *)
(* thread.                                                                 *)
LEMMA GotoType ==
  ASSUME op \in [Threads -> Ops], NEW t \in Threads, NEW s \in Scopes,
         NEW p, NEW g \in Nat, NEW c \in BOOLEAN, Goto(t, s, p, g, c),
         \/ p \in {"append", "prepared", "publish"} /\ g # 0
         \/ p \in {"create", "confirmed"} /\ g = 0
         \/ p \in {"marked", "fenced", "record", "push"} /\ g = 0
  PROVE  op' \in [Threads -> Ops]
<1>1. [pc |-> p, scope |-> s, gen |-> g, confirm |-> c] \in Ops
  BY DEF Ops, Sealing, Waiting, Erasing
<1> QED
  BY <1>1 DEF Goto

(* A finished call leaves a well-formed thread. *)
LEMMA ReturnType ==
  ASSUME op \in [Threads -> Ops], NEW t \in Threads, Return(t)
  PROVE  op' \in [Threads -> Ops]
<1>1. Idle \in Ops
  BY DEF Ops
<1> QED
  BY <1>1 DEF Return

(* What a thread under way carries. *)
LEMMA OpType ==
  ASSUME op \in [Threads -> Ops], NEW t \in Threads, op[t].pc # "idle"
  PROVE  /\ op[t].scope \in Scopes
         /\ op[t].gen \in Nat
         /\ op[t].confirm \in BOOLEAN
         /\ op[t].pc \in {"append", "prepared", "publish"} => op[t].gen # 0
<1>1. op[t] \in Sealing \cup Waiting \cup Erasing
  BY DEF Ops, Idle
<1>2. CASE op[t] \in Sealing
  BY <1>2 DEF Sealing
<1>3. CASE op[t] \in Waiting
  BY <1>3 DEF Waiting
<1>4. CASE op[t] \in Erasing
  BY <1>4 DEF Erasing
<1> QED
  BY <1>1, <1>2, <1>3, <1>4

(* A read under way names a scope. *)
LEMMA ReadType ==
  ASSUME read \in Reads, read.pc # "idle"
  PROVE  /\ read.scope \in Scopes
         /\ read \in [pc : {"fold", "keep"}, scope : Scopes, value : SUBSET Nat,
                      head : Nat, current : BOOLEAN]
BY DEF Reads, NoRead

(* A read whose stamp is overtaken is still a read. *)
LEMMA ReadStaleType ==
  ASSUME read \in Reads, read' = [read EXCEPT !.current = FALSE]
  PROVE  read' \in Reads
<1>1. CASE read = NoRead
  BY <1>1 DEF Reads, NoRead
<1>2. CASE read \in [pc : {"fold", "keep"}, scope : Scopes, value : SUBSET Nat,
                     head : Nat, current : BOOLEAN]
  BY <1>2 DEF Reads
<1> QED
  BY <1>1, <1>2 DEF Reads

(* A moved epoch leaves well-formed memories. *)
LEMMA MemoStaleType ==
  ASSUME memo \in [Scopes -> Memos],
         memo' = [s \in Scopes |-> [memo[s] EXCEPT !.current = FALSE]]
  PROVE  memo' \in [Scopes -> Memos]
BY DEF Memos

(* The type invariant is preserved by every step. *)
LEMMA TypeStep == TypeOK /\ [Next]_vars => TypeOK'
<1> SUFFICES ASSUME TypeOK, [Next]_vars PROVE TypeOK'
  OBVIOUS
<1> USE DEF TypeOK, history, memory
<1>0. /\ disk.key \in [Scopes -> Nat] /\ disk.tomb \subseteq Scopes
      /\ disk.ledger \subseteq Scopes /\ disk.rows \in [Scopes -> Seq(Nat)]
  BY DEF Disks
<1>1. CASE UNCHANGED vars
  BY <1>1 DEF vars
<1>2. ASSUME NEW t \in Threads, NEW s \in Scopes, Encode(t, s) PROVE TypeOK'
  <2>1. cache' \in [Scopes -> Nat]
    BY <1>0, <1>2 DEF Encode
  <2>2. op' \in [Threads -> Ops]
    <3>1. CASE Resolves(s) /\ Goto(t, s, "append", disk.key[s], FALSE)
      BY <1>0, <3>1, GotoType DEF Resolves
    <3>2. CASE Goto(t, s, "create", 0, FALSE)
      BY <3>2, GotoType
    <3> QED
      BY <1>2, <3>1, <3>2 DEF Encode
  <2> QED
    BY <1>2, <2>1, <2>2 DEF Encode
<1>3. ASSUME NEW t \in Threads, NEW s \in Scopes, ConfirmScope(t, s) PROVE TypeOK'
  <2>1. op' \in [Threads -> Ops]
    BY <1>3, GotoType DEF ConfirmScope
  <2> QED
    BY <1>3, <2>1 DEF ConfirmScope
<1>4. ASSUME NEW t \in Threads, NEW s \in Scopes, NEW c \in BOOLEAN, EraseMark(t, s, c)
      PROVE  TypeOK'
  <2>1. op' \in [Threads -> Ops]
    <3>1. Goto(t, s, "marked", 0, c)
      BY <1>4 DEF EraseMark
    <3> QED
      BY <3>1, GotoType
  <2>2. disk' \in Disks
    BY <1>4 DEF EraseMark, Disks
  <2> QED
    BY <1>4, <2>1, <2>2 DEF EraseMark
<1>5. ASSUME NEW t \in Threads, EncodeCreate(t) PROVE TypeOK'
  <2> DEFINE s == op[t].scope
  <2>1. s \in Scopes
    BY <1>5, OpType DEF EncodeCreate
  <2>2. KeyFor(s) \in Nat /\ KeyFor(s) # 0
    BY <1>0, <2>1 DEF KeyFor
  <2>3. CASE Return(t) /\ UNCHANGED <<disk, cache, minted>>
    BY <1>5, <2>3, ReturnType DEF EncodeCreate
  <2>4. CASE /\ disk' = [disk EXCEPT !.key[s] = KeyFor(s)]
             /\ minted' = [minted EXCEPT ![s] = IF disk.key[s] = 0 THEN @ + 1 ELSE @]
             /\ \/ Return(t) /\ UNCHANGED cache
                \/ /\ s \notin fence
                   /\ cache' = [cache EXCEPT ![s] = KeyFor(s)]
                   /\ Goto(t, s, "append", KeyFor(s), FALSE)
    <3>1. disk' \in Disks
      BY <2>1, <2>2, <2>4, KeyWriteType
    <3>2. minted' \in [Scopes -> Nat]
      BY <2>1, <2>4
    <3>3. cache' \in [Scopes -> Nat]
      BY <2>1, <2>2, <2>4
    <3>4. op' \in [Threads -> Ops]
      BY <2>1, <2>2, <2>4, GotoType, ReturnType
    <3> QED
      BY <1>5, <3>1, <3>2, <3>3, <3>4 DEF EncodeCreate
  <2> QED
    BY <1>5, <2>3, <2>4 DEF EncodeCreate
<1>6. ASSUME NEW t \in Threads, Append_(t) PROVE TypeOK'
  <2>1. op[t].scope \in Scopes /\ op[t].gen \in Nat
    BY <1>6, OpType DEF Append_
  <2>2. disk' \in Disks
    BY <1>6, <2>1, RowWriteType DEF Append_
  <2>3. op' \in [Threads -> Ops]
    BY <1>6, ReturnType DEF Append_
  <2> QED
    BY <1>6, <2>2, <2>3 DEF Append_
<1>7. ASSUME NEW t \in Threads, PrepareScopeKey(t) PROVE TypeOK'
  <2> DEFINE s == op[t].scope
  <2>1. s \in Scopes
    BY <1>7, OpType DEF PrepareScopeKey
  <2>2. KeyFor(s) \in Nat /\ KeyFor(s) # 0
    BY <1>0, <2>1 DEF KeyFor
  <2>3. CASE Return(t) /\ UNCHANGED <<disk, minted>>
    BY <1>7, <2>3, ReturnType DEF PrepareScopeKey
  <2>4. CASE /\ disk.key[s] # 0 /\ Goto(t, s, "prepared", disk.key[s], FALSE)
             /\ UNCHANGED <<disk, minted>>
    <3>1. op' \in [Threads -> Ops]
      BY <1>0, <2>1, <2>4, GotoType
    <3> QED
      BY <1>7, <2>4, <3>1 DEF PrepareScopeKey
  <2>5. CASE /\ disk' = [disk EXCEPT !.key[s] = KeyFor(s)]
             /\ minted' = [minted EXCEPT ![s] = @ + 1]
             /\ Goto(t, s, "prepared", KeyFor(s), FALSE) \/ Return(t)
    <3>1. disk' \in Disks
      BY <2>1, <2>2, <2>5, KeyWriteType
    <3>2. minted' \in [Scopes -> Nat]
      BY <2>1, <2>5
    <3>3. op' \in [Threads -> Ops]
      BY <2>1, <2>2, <2>5, GotoType, ReturnType
    <3> QED
      BY <1>7, <3>1, <3>2, <3>3 DEF PrepareScopeKey
  <2> QED
    BY <1>7, <2>3, <2>4, <2>5 DEF PrepareScopeKey
<1>8. ASSUME NEW t \in Threads, Retain(t) PROVE TypeOK'
  <2>1. op[t].scope \in Scopes /\ op[t].gen \in Nat /\ op[t].gen # 0
    BY <1>8, OpType DEF Retain
  <2>2. op' \in [Threads -> Ops]
    BY <1>8, <2>1, GotoType, ReturnType DEF Retain
  <2> QED
    BY <1>8, <2>2 DEF Retain
<1>9. ASSUME NEW t \in Threads, Publish(t) PROVE TypeOK'
  <2>1. op[t].scope \in Scopes /\ op[t].gen \in Nat /\ op[t].gen # 0
    BY <1>9, OpType DEF Publish
  <2>2. disk' \in Disks
    BY <1>9, <2>1, RowWriteType DEF Publish
  <2>3. op' \in [Threads -> Ops]
    BY <1>9, <2>1, GotoType DEF Publish
  <2> QED
    BY <1>9, <2>2, <2>3 DEF Publish
<1>10. ASSUME NEW t \in Threads, EraseFence(t) PROVE TypeOK'
  <2>1. op[t].scope \in Scopes /\ op[t].confirm \in BOOLEAN
    BY <1>10, OpType DEF EraseFence
  <2>2. op' \in [Threads -> Ops]
    BY <1>10, <2>1, GotoType DEF EraseFence
  <2>3. memo' \in [Scopes -> Memos] /\ read' \in Reads
    BY <1>10, MemoStaleType, ReadStaleType DEF EraseFence, EraseEpoch, AdvanceEpoch
  <2>4. fence' \subseteq Scopes /\ cache' \in [Scopes -> Nat]
    BY <1>10, <2>1 DEF EraseFence
  <2> QED
    BY <1>10, <2>2, <2>3, <2>4 DEF EraseFence
<1>11. ASSUME NEW t \in Threads, EraseUnlink(t) PROVE TypeOK'
  <2>1. op[t].scope \in Scopes /\ op[t].confirm \in BOOLEAN
    BY <1>11, OpType DEF EraseUnlink
  <2>2. disk' \in Disks
    BY <1>11, <2>1, KeyWriteType DEF EraseUnlink
  <2>3. op' \in [Threads -> Ops]
    <3>1. Goto(t, op[t].scope, "record", 0, op[t].confirm)
      BY <1>11 DEF EraseUnlink
    <3> QED
      BY <2>1, <3>1, GotoType
  <2> QED
    BY <1>11, <2>2, <2>3 DEF EraseUnlink
<1>12. ASSUME NEW t \in Threads, EraseRecord(t) PROVE TypeOK'
  <2>1. op[t].scope \in Scopes
    BY <1>12, OpType DEF EraseRecord
  <2>2. disk' \in Disks
    BY <1>12, <2>1 DEF EraseRecord, Disks
  <2>3. op' \in [Threads -> Ops]
    <3>1. Goto(t, op[t].scope, "push", 0, TRUE) \/ Return(t)
      BY <1>12 DEF EraseRecord
    <3>2. CASE Goto(t, op[t].scope, "push", 0, TRUE)
      <4>1. [pc |-> "push", scope |-> op[t].scope, gen |-> 0, confirm |-> TRUE] \in Ops
        BY <2>1 DEF Ops, Erasing
      <4> QED
        BY <3>2, <4>1 DEF Goto
    <3> QED
      BY <3>1, <3>2, ReturnType
  <2>4. pushes' \subseteq Scopes /\ acked' \subseteq Scopes /\ confirmed' \subseteq Scopes
    BY <1>12, <2>1 DEF EraseRecord
  <2> QED
    BY <1>12, <2>2, <2>3, <2>4 DEF EraseRecord
<1>13. ASSUME NEW t \in Threads, ErasePush(t) PROVE TypeOK'
  <2>1. op[t].scope \in Scopes
    BY <1>13, OpType DEF ErasePush
  <2>2. op' \in [Threads -> Ops]
    BY <1>13, ReturnType DEF ErasePush
  <2> QED
    BY <1>13, <2>1, <2>2 DEF ErasePush, ConfirmedPush
<1>14. ASSUME NEW t \in Threads, EraseFails(t) PROVE TypeOK'
  BY <1>14, ReturnType DEF EraseFails, Fault
<1>15. ASSUME NEW s \in Scopes, Remember(s) PROVE TypeOK'
  <2>1. Len(disk.rows[s]) \in Nat
    BY <1>0
  <2>2. read' \in Reads
    BY <1>15, <2>1 DEF Remember, Reads
  <2> QED
    BY <1>15, <2>2 DEF Remember
<1>16. ASSUME NEW s \in Scopes, PushEnds(s) PROVE TypeOK'
  BY <1>16 DEF PushEnds, Fault
<1>17. CASE FoldRead
  <2> DEFINE s == read.scope
  <2>1. s \in Scopes /\ read.pc = "fold"
    BY <1>17, ReadType DEF FoldRead
  <2>2. CASE UNCHANGED <<cache, memo>> /\ read' = [read EXCEPT !.pc = "keep"]
    <3>1. read' \in Reads
      BY <1>17, <2>1, <2>2, ReadType DEF Reads
    <3> QED
      BY <1>17, <2>2, <3>1 DEF FoldRead
  <2>3. CASE /\ cache' = [cache EXCEPT ![s] = disk.key[s]]
             /\ read' = [read EXCEPT !.pc = "keep", !.value = Opened(s, disk.key[s])]
             /\ UNCHANGED memo
    <3>1. Opened(s, disk.key[s]) \subseteq Nat
      BY <1>0, <2>1 DEF Opened
    <3>2. read' \in Reads
      BY <1>17, <2>1, <2>3, <3>1, ReadType DEF Reads
    <3>3. cache' \in [Scopes -> Nat]
      BY <1>0, <2>1, <2>3
    <3> QED
      BY <1>17, <2>3, <3>2, <3>3 DEF FoldRead
  <2>4. CASE /\ read' = [read EXCEPT !.pc = "keep", !.current = FALSE]
             /\ memo' = [r \in Scopes |-> [memo[r] EXCEPT !.current = FALSE]]
             /\ UNCHANGED cache
    <3>1. read' \in Reads
      BY <1>17, <2>1, <2>4, ReadType DEF Reads
    <3>2. memo' \in [Scopes -> Memos]
      BY <2>4, MemoStaleType
    <3> QED
      BY <1>17, <2>4, <3>1, <3>2 DEF FoldRead
  <2> QED
    BY <1>17, <2>2, <2>3, <2>4 DEF FoldRead
<1>18. CASE FoldReadFails
  <2>1. read' \in Reads
    BY <1>18, ReadType DEF FoldReadFails, Reads
  <2>2. memo' \in [Scopes -> Memos]
    BY <1>18, MemoStaleType DEF FoldReadFails
  <2> QED
    BY <1>18, <2>1, <2>2 DEF FoldReadFails, Fault
<1>19. CASE Keep
  <2>1. read \in [pc : {"fold", "keep"}, scope : Scopes, value : SUBSET Nat,
                  head : Nat, current : BOOLEAN]
    BY <1>19, ReadType DEF Keep
  <2>2. [value |-> read.value, head |-> read.head, current |-> read.current,
         held |-> TRUE] \in Memos
    BY <2>1 DEF Memos
  <2>3. memo' \in [Scopes -> Memos]
    BY <1>19, <2>2 DEF Keep
  <2>4. read' \in Reads
    BY <1>19 DEF Keep, Reads
  <2> QED
    BY <1>19, <2>3, <2>4 DEF Keep
<1>20. CASE Crash
  <2>1. /\ cache' \in [Scopes -> Nat] /\ op' \in [Threads -> Ops]
        /\ read' \in Reads /\ memo' \in [Scopes -> Memos] /\ pushes' = {}
    BY <1>20 DEF Crash, FreshMemory, Ops, Reads, Memos, NoMemo
  <2>2. faults' \in Nat
    BY <1>20 DEF Crash, Fault
  <2>3. /\ fence' = {} /\ up' \in BOOLEAN
        /\ UNCHANGED <<disk, image, edge, linked, minted, acked, confirmed, rolled>>
    BY <1>20, Zenon DEF Crash
  <2> QED
    BY <2>1, <2>2, <2>3
<1>21. CASE Backup
  BY <1>21 DEF Backup
<1>22. CASE RestoreRoot
  BY <1>22 DEF RestoreRoot
<1>23. ASSUME NEW tomb \in SUBSET Scopes, RestoreKeys(tomb) PROVE TypeOK'
  <2>1. disk' \in Disks
    BY <1>23 DEF RestoreKeys, Disks
  <2> QED
    BY <1>23, <2>1 DEF RestoreKeys
<1>24. ASSUME NEW reach \in BOOLEAN, NEW marked \in SUBSET Scopes,
              NEW swept \in SUBSET Scopes, NEW sent \in SUBSET Scopes,
              Open(reach, marked, swept, sent)
       PROVE  TypeOK'
  <2>1. disk' \in Disks
    BY <1>24 DEF Open, Disks
  <2>2. fence' \subseteq Scopes
    BY <1>0, <1>24 DEF Open, SweepFence, RecordedAtOpen
  <2>3. faults' \in Nat
    BY <1>24 DEF Open, Fault
  <2> QED
    BY <1>24, <2>1, <2>2, <2>3 DEF Open
<1> QED
  BY <1>1, <1>2, <1>3, <1>4, <1>5, <1>6, <1>7, <1>8, <1>9, <1>10, <1>11, <1>12,
     <1>13, <1>14, <1>15, <1>16, <1>17, <1>18, <1>19, <1>20, <1>21, <1>22, <1>23,
     <1>24 DEF Next

(* The type invariant of the vault, for every number of scopes, threads,   *)
(* keys, rows and faults.                                                  *)
THEOREM TypeCorrect == Spec => []TypeOK
<1>1. Init => TypeOK
  <2> SUFFICES ASSUME Init PROVE TypeOK
    OBVIOUS
  <2>1. disk \in Disks /\ image \in Disks
    BY DEF Init, FreshRoot, Disks
  <2>2. op \in [Threads -> Ops] /\ read \in Reads /\ memo \in [Scopes -> Memos]
    BY DEF Init, Ops, Reads, Memos, NoMemo
  <2> QED
    BY <2>1, <2>2 DEF Init, TypeOK
<1> QED
  BY <1>1, TypeStep, PTL DEF Spec

-----------------------------------------------------------------------------
(* Erasure *)

(* A key is resolved only for a scope that is not fenced. *)
LEMMA ResolvedNotFenced ==
  ASSUME TypeOK, FenceInv, NEW s \in Scopes, Resolves(s)
  PROVE  s \notin fence
BY DEF TypeOK, FenceInv, Resolves

(* A thread's next step keeps the erasing threads inside the fence. *)
LEMMA GotoFenced ==
  ASSUME TypeOK, FenceInv, NEW t \in Threads, NEW s, NEW p, NEW g, NEW c,
         Goto(t, s, p, g, c), fence \subseteq fence',
         p \in {"fenced", "record", "push"} => s \in fence'
  PROVE  \A u \in Threads :
           op'[u].pc \in {"fenced", "record", "push"} => op'[u].scope \in fence'
BY DEF TypeOK, FenceInv, Goto

(* So does a thread that returns. *)
LEMMA ReturnFenced ==
  ASSUME TypeOK, FenceInv, NEW t \in Threads, Return(t), fence \subseteq fence'
  PROVE  \A u \in Threads :
           op'[u].pc \in {"fenced", "record", "push"} => op'[u].scope \in fence'
BY DEF TypeOK, FenceInv, Return, Idle

(* Every step keeps the ledger and the confirmed erasures behind the fence. *)
LEMMA FenceStep == TypeOK /\ TypeOK' /\ FenceInv /\ [Next]_vars => FenceInv'
<1> SUFFICES ASSUME TypeOK, TypeOK', FenceInv, [Next]_vars PROVE FenceInv'
  OBVIOUS
<1>0. /\ disk.key \in [Scopes -> Nat] /\ disk.tomb \subseteq Scopes
      /\ disk.ledger \subseteq Scopes /\ disk.rows \in [Scopes -> Seq(Nat)]
  BY DEF TypeOK, Disks
<1> USE DEF history, memory
<1>1. CASE UNCHANGED vars
  BY <1>1 DEF vars, FenceInv
<1>2. ASSUME NEW t \in Threads, NEW s \in Scopes, Encode(t, s) PROVE FenceInv'
  <2>1. \A u \in Threads :
          op'[u].pc \in {"fenced", "record", "push"} => op'[u].scope \in fence'
    <3>1. fence' = fence
      BY <1>2 DEF Encode
    <3>2. \/ Goto(t, s, "append", disk.key[s], FALSE)
          \/ Goto(t, s, "create", 0, FALSE)
      BY <1>2 DEF Encode
    <3> QED
      BY <3>1, <3>2, GotoFenced
  <2>2. \A r \in fence' : cache'[r] = 0
    <3>1. fence' = fence
      BY <1>2 DEF Encode
    <3>2. cache' = cache \/ (s \notin fence /\ cache' = [cache EXCEPT ![s] = disk.key[s]])
      BY <1>2, ResolvedNotFenced DEF Encode
    <3>3. \A r \in fence : r \in Scopes /\ cache[r] = 0
      BY DEF TypeOK, FenceInv
    <3>4. cache \in [Scopes -> Nat]
      BY DEF TypeOK
    <3> QED
      BY <3>1, <3>2, <3>3, <3>4
  <2>3. up /\ up' /\ UNCHANGED <<disk, edge, linked, fence, acked, confirmed, rolled>>
    BY <1>2 DEF Encode
  <2> QED
    BY <2>1, <2>2, <2>3 DEF FenceInv
<1>3. ASSUME NEW t \in Threads, NEW s \in Scopes, ConfirmScope(t, s) PROVE FenceInv'
  BY <1>3 DEF ConfirmScope, Goto, TypeOK, FenceInv
<1>4. ASSUME NEW t \in Threads, NEW s \in Scopes, NEW c \in BOOLEAN, EraseMark(t, s, c)
      PROVE  FenceInv'
  <2>1. disk'.ledger = disk.ledger
    BY <1>4 DEF EraseMark, TypeOK, Disks
  <2> QED
    BY <1>4, <2>1 DEF EraseMark, Goto, TypeOK, FenceInv
<1>5. ASSUME NEW t \in Threads, EncodeCreate(t) PROVE FenceInv'
  <2>1. op[t].scope \in Scopes
    BY <1>5, OpType DEF EncodeCreate, TypeOK
  <2>2. disk'.ledger = disk.ledger
    BY <1>5 DEF EncodeCreate, TypeOK, Disks
  <2>3. \A r \in fence' : cache'[r] = 0
    <3>1. CASE UNCHANGED cache
      BY <1>5, <3>1 DEF EncodeCreate, FenceInv
    <3>2. CASE /\ op[t].scope \notin fence
               /\ cache' = [cache EXCEPT ![op[t].scope] = KeyFor(op[t].scope)]
      BY <1>5, <3>2 DEF EncodeCreate, FenceInv, TypeOK
    <3> QED
      BY <1>5, <3>1, <3>2 DEF EncodeCreate
  <2>4. \A u \in Threads :
          op'[u].pc \in {"fenced", "record", "push"} => op'[u].scope \in fence'
    BY <1>5, <2>1 DEF EncodeCreate, Goto, Return, Idle, TypeOK, FenceInv
  <2>5. up /\ up' /\ UNCHANGED <<edge, linked, fence, acked, confirmed, rolled>>
    BY <1>5 DEF EncodeCreate
  <2> QED
    BY <2>2, <2>3, <2>4, <2>5 DEF FenceInv
<1>6. ASSUME NEW t \in Threads, Append_(t) \/ Publish(t) PROVE FenceInv'
  <2>1. op[t].scope \in Scopes /\ op[t].gen \in Nat
    BY <1>6, OpType DEF Append_, Publish, TypeOK
  <2>2. disk'.ledger = disk.ledger
    BY <1>6, <2>1, RowWriteType DEF Append_, Publish, TypeOK
  <2>3. \A u \in Threads :
          op'[u].pc \in {"fenced", "record", "push"} => op'[u].scope \in fence'
    <3>1. fence' = fence
      BY <1>6 DEF Append_, Publish
    <3>2. Return(t) \/ Goto(t, op[t].scope, "prepared", op[t].gen, FALSE)
      BY <1>6 DEF Append_, Publish
    <3> QED
      BY <3>1, <3>2, GotoFenced, ReturnFenced
  <2>4. up /\ up' /\ UNCHANGED <<edge, linked, fence, cache, acked, confirmed, rolled>>
    <3>1. CASE Append_(t)
      BY <3>1 DEF Append_
    <3>2. CASE Publish(t)
      BY <3>2 DEF Publish
    <3> QED
      BY <1>6, <3>1, <3>2
  <2> QED
    BY <2>2, <2>3, <2>4 DEF FenceInv
<1>7. ASSUME NEW t \in Threads, PrepareScopeKey(t) PROVE FenceInv'
  <2>1. disk'.ledger = disk.ledger
    BY <1>7 DEF PrepareScopeKey, TypeOK, Disks
  <2>2. \A u \in Threads :
          op'[u].pc \in {"fenced", "record", "push"} => op'[u].scope \in fence'
    <3>1. fence' = fence
      BY <1>7 DEF PrepareScopeKey
    <3>2. Return(t) \/ \E g : Goto(t, op[t].scope, "prepared", g, FALSE)
      BY <1>7 DEF PrepareScopeKey
    <3> QED
      BY <3>1, <3>2, GotoFenced, ReturnFenced
  <2>3. up /\ up' /\ UNCHANGED <<edge, linked, fence, cache, acked, confirmed, rolled>>
    BY <1>7 DEF PrepareScopeKey
  <2> QED
    BY <2>1, <2>2, <2>3 DEF FenceInv
<1>8. ASSUME NEW t \in Threads, Retain(t) \/ EraseFails(t) PROVE FenceInv'
  <2>1. \A u \in Threads :
          op'[u].pc \in {"fenced", "record", "push"} => op'[u].scope \in fence'
    <3>1. fence' = fence
      BY <1>8 DEF Retain, EraseFails
    <3>2. Return(t) \/ Goto(t, op[t].scope, "publish", op[t].gen, FALSE)
      BY <1>8 DEF Retain, EraseFails
    <3> QED
      BY <3>1, <3>2, GotoFenced, ReturnFenced
  <2>2. up /\ up' /\ UNCHANGED <<disk, edge, linked, fence, cache, acked, confirmed, rolled>>
    <3>1. CASE Retain(t)
      BY <3>1 DEF Retain
    <3>2. CASE EraseFails(t)
      BY <3>2 DEF EraseFails
    <3> QED
      BY <1>8, <3>1, <3>2
  <2> QED
    BY <2>1, <2>2 DEF FenceInv
<1>9. ASSUME NEW t \in Threads, EraseFence(t) PROVE FenceInv'
  <2>1. op[t].scope \in Scopes
    BY <1>9, OpType DEF EraseFence, TypeOK
  <2>2. \A r \in fence' : cache'[r] = 0
    BY <1>9, <2>1 DEF EraseFence, TypeOK, FenceInv
  <2>3. \A u \in Threads :
          op'[u].pc \in {"fenced", "record", "push"} => op'[u].scope \in fence'
    BY <1>9 DEF EraseFence, Goto, TypeOK, FenceInv
  <2>4. /\ up /\ up' /\ fence \subseteq fence'
        /\ UNCHANGED <<disk, edge, linked, acked, confirmed, rolled>>
    BY <1>9 DEF EraseFence
  <2> QED
    BY <2>2, <2>3, <2>4 DEF FenceInv
<1>10. ASSUME NEW t \in Threads, EraseUnlink(t) PROVE FenceInv'
  <2>1. disk'.ledger = disk.ledger
    BY <1>10 DEF EraseUnlink, TypeOK, Disks
  <2>2. \A u \in Threads :
          op'[u].pc \in {"fenced", "record", "push"} => op'[u].scope \in fence'
    BY <1>10 DEF EraseUnlink, Goto, TypeOK, FenceInv
  <2>3. up /\ up' /\ UNCHANGED <<edge, linked, fence, cache, acked, confirmed, rolled>>
    BY <1>10 DEF EraseUnlink
  <2> QED
    BY <2>1, <2>2, <2>3 DEF FenceInv
<1>11. ASSUME NEW t \in Threads, EraseRecord(t) PROVE FenceInv'
  <2>1. op[t].scope \in Scopes /\ op[t].scope \in fence
    BY <1>11, OpType DEF EraseRecord, TypeOK, FenceInv
  <2>2. disk'.ledger = disk.ledger \cup {op[t].scope}
    BY <1>11 DEF EraseRecord, TypeOK, Disks
  <2>3. \A u \in Threads :
          op'[u].pc \in {"fenced", "record", "push"} => op'[u].scope \in fence'
    BY <1>11, <2>1 DEF EraseRecord, Goto, Return, Idle, TypeOK, FenceInv
  <2>4. /\ up /\ up' /\ UNCHANGED <<edge, linked, fence, cache, rolled>>
        /\ acked' \subseteq acked \cup {op[t].scope}
        /\ Hosted => confirmed' = confirmed
    BY <1>11 DEF EraseRecord
  <2> QED
    BY <2>1, <2>2, <2>3, <2>4 DEF FenceInv
<1>12. ASSUME NEW t \in Threads, ErasePush(t) PROVE FenceInv'
  <2>1. op[t].scope \in fence
    BY <1>12 DEF ErasePush, FenceInv
  <2>2. \A u \in Threads :
          op'[u].pc \in {"fenced", "record", "push"} => op'[u].scope \in fence'
    BY <1>12 DEF ErasePush, Return, Idle, TypeOK, FenceInv
  <2>3. /\ up /\ up' /\ UNCHANGED <<disk, linked, fence, cache, acked, rolled>>
        /\ edge' = edge \cup {op[t].scope} /\ confirmed' = confirmed \cup {op[t].scope}
    BY <1>12 DEF ErasePush, ConfirmedPush
  <2> QED
    BY <2>1, <2>2, <2>3 DEF FenceInv
<1>13. ASSUME NEW s \in Scopes, Remember(s) PROVE FenceInv'
  BY <1>13 DEF Remember, FenceInv
<1>14. ASSUME NEW s \in Scopes, PushEnds(s) PROVE FenceInv'
  <2>1. /\ edge \subseteq edge'
        /\ UNCHANGED <<disk, up, linked, fence, cache, op, acked, confirmed, rolled>>
    BY <1>14 DEF PushEnds
  <2> QED
    BY <2>1 DEF FenceInv
<1>15. CASE FoldRead
  <2>1. read.scope \in Scopes
    BY <1>15, ReadType DEF FoldRead, TypeOK
  <2>2. \A r \in fence' : cache'[r] = 0
    BY <1>15, <2>1, ResolvedNotFenced DEF FoldRead, TypeOK, FenceInv
  <2>3. up /\ up' /\ UNCHANGED <<disk, edge, linked, fence, op, acked, confirmed, rolled>>
    BY <1>15 DEF FoldRead
  <2> QED
    BY <2>2, <2>3 DEF FenceInv
<1>16. CASE FoldReadFails
  BY <1>16 DEF FoldReadFails, FenceInv
<1>17. CASE Keep
  BY <1>17 DEF Keep, FenceInv
<1>18. CASE Crash
  <2>1. /\ \A r \in Scopes : cache'[r] = 0
        /\ \A u \in Threads : op'[u] = Idle
    BY <1>18 DEF Crash, FreshMemory
  <2>2. /\ ~up' /\ fence' = {}
        /\ UNCHANGED <<disk, edge, linked, acked, confirmed, rolled>>
    BY <1>18, Zenon DEF Crash
  <2>3. acked' \ rolled' \subseteq disk'.ledger /\ (Hosted => confirmed' \subseteq edge')
    BY <2>2 DEF FenceInv
  <2>4. \A u \in Threads : op'[u].pc = "idle"
    BY <2>1 DEF Idle
  <2> QED
    BY <2>1, <2>2, <2>3, <2>4 DEF FenceInv
<1>19. CASE Backup
  BY <1>19 DEF Backup, FenceInv
<1>20. CASE RestoreRoot
  <2>1. /\ ~up /\ disk' = image /\ rolled' = rolled \cup (acked \ image.ledger)
        /\ UNCHANGED <<edge, up, linked, fence, cache, op, acked, confirmed>>
    BY <1>20 DEF RestoreRoot
  <2>2. acked' \ rolled' \subseteq disk'.ledger
    BY <2>1
  <2> QED
    BY <2>1, <2>2 DEF FenceInv
<1>21. ASSUME NEW tomb \in SUBSET Scopes, RestoreKeys(tomb) PROVE FenceInv'
  <2>1. disk'.ledger = disk.ledger
    BY <1>21 DEF RestoreKeys, TypeOK, Disks
  <2>2. ~up /\ UNCHANGED <<edge, up, linked, fence, cache, op, acked, confirmed, rolled>>
    BY <1>21 DEF RestoreKeys
  <2> QED
    BY <2>1, <2>2 DEF FenceInv
<1>22. ASSUME NEW reach \in BOOLEAN, NEW marked \in SUBSET Scopes,
              NEW swept \in SUBSET Scopes, NEW sent \in SUBSET Scopes,
              Open(reach, marked, swept, sent)
       PROVE  FenceInv'
  <2>1. disk'.ledger = disk.ledger
    BY <1>22 DEF Open, TypeOK, Disks
  <2>2. /\ ~up /\ up' /\ (linked' <=> reach)
        /\ UNCHANGED <<cache, op, acked, confirmed, rolled>>
    BY <1>22, Zenon DEF Open
  <2>3. fence' = disk.ledger \cup IF Hosted /\ reach THEN edge ELSE {}
    BY <1>22 DEF Open, SweepFence, RecordedAtOpen
  <2>4. edge \subseteq edge'
    BY <1>22 DEF Open
  <2>5. /\ \A r \in fence' : cache'[r] = 0
        /\ \A u \in Threads : op'[u] = Idle
    BY <2>2, <2>3, TypeOK' DEF FenceInv, TypeOK
  <2> QED
    BY <2>1, <2>2, <2>3, <2>4, <2>5 DEF FenceInv, Idle
<1> QED
  BY <1>1, <1>2, <1>3, <1>4, <1>5, <1>6, <1>7, <1>8, <1>9, <1>10, <1>11, <1>12,
     <1>13, <1>14, <1>15, <1>16, <1>17, <1>18, <1>19, <1>20, <1>21, <1>22 DEF Next

(* The vault stays behind its fence. *)
LEMMA Fenced == Spec => [](TypeOK /\ FenceInv)
<1>1. Init => FenceInv
  BY DEF Init, FenceInv, FreshRoot, Idle
<1>2. Spec => []TypeOK
  BY TypeCorrect
<1> QED
  BY <1>1, <1>2, FenceStep, PTL DEF Spec

(* A scope that is fenced and in a ledger cannot be read, whatever files a *)
(* crash, a restore or a failed sweep left.                                *)
LEMMA FencedUnreadable ==
  ASSUME TypeOK, FenceInv, NEW s \in Scopes, s \in fence, s \in Recorded
  PROVE  ~Readable(s)
<1>1. ~Resolves(s)
  BY ResolvedNotFenced
<1> QED
  BY <1>1 DEF Readable

(* SECAUD-6, DR-0086 for every instance: what `crypto_erase` recorded is   *)
(* never readable again unless a whole-root restore took its record back.  *)
THEOREM RecordedErasureLasts == Spec => []AckedStaysErased
<1>1. TypeOK /\ FenceInv => AckedStaysErased
  <2> SUFFICES ASSUME TypeOK, FenceInv, NEW s \in acked \ rolled PROVE ~Readable(s)
    BY DEF AckedStaysErased
  <2>1. s \in Scopes /\ s \in disk.ledger
    BY DEF TypeOK, FenceInv
  <2>2. CASE up
    BY <2>1, <2>2, FencedUnreadable DEF FenceInv, Recorded
  <2>3. CASE ~up
    BY <2>3 DEF Readable
  <2> QED
    BY <2>2, <2>3
<1> QED
  BY <1>1, Fenced, PTL

(* An erasure confirmed at the edge is not readable at any open that       *)
(* reached the edge, whole-root restores included.                         *)
THEOREM ConfirmedErasureLasts == Spec => []ConfirmedStaysErased
<1>1. TypeOK /\ FenceInv => ConfirmedStaysErased
  <2> SUFFICES ASSUME TypeOK, FenceInv, Hosted, linked, NEW s \in confirmed
               PROVE  ~Readable(s)
    BY DEF ConfirmedStaysErased
  <2>1. s \in Scopes /\ s \in edge
    BY DEF TypeOK, FenceInv
  <2>2. CASE up
    BY <2>1, <2>2, FencedUnreadable DEF FenceInv, Recorded
  <2>3. CASE ~up
    BY <2>3 DEF Readable
  <2> QED
    BY <2>2, <2>3
<1> QED
  BY <1>1, Fenced, PTL

-----------------------------------------------------------------------------
(* Publication *)

(* While a scope is published under `retain` the exclusive lock is refused, *)
(* and nobody erasing it can exist: its tombstone would show.              *)
LEMMA LockStep == TypeOK /\ TypeOK' /\ LockInv /\ [Next]_vars => LockInv'
<1> SUFFICES ASSUME TypeOK, TypeOK', LockInv, [Next]_vars PROVE LockInv'
  OBVIOUS
<1> DEFINE Good(o, d) ==
      /\ o.pc \in {"marked", "fenced"} => o.scope \in d.tomb
      /\ o.pc = "publish" => o.scope \notin d.tomb /\ d.key[o.scope] = o.gen
<1>0. \A u \in Threads : Good(op[u], disk)
  BY DEF LockInv, RetainedKeyLive, Available
<1>a. SUFFICES /\ \A u \in Threads : Good(op'[u], disk')
               /\ ~up' => \A u \in Threads : op'[u] = Idle
  BY DEF LockInv, RetainedKeyLive, Available
<1> USE DEF history, memory
<1>b. Good(Idle, disk')
  BY DEF Idle
<1>1. CASE UNCHANGED vars
  BY <1>0, <1>1 DEF vars, LockInv
<1>2. ASSUME NEW t \in Threads, NEW s \in Scopes, Encode(t, s) \/ ConfirmScope(t, s)
      PROVE  \A u \in Threads : Good(op'[u], disk')
  <2>1. disk' = disk
    BY <1>2 DEF Encode, ConfirmScope
  <2>2. \E p \in {"append", "create", "confirmed"} : \E g : Goto(t, s, p, g, FALSE)
    BY <1>2 DEF Encode, ConfirmScope
  <2> QED
    BY <1>0, <2>1, <2>2 DEF Goto, TypeOK
<1>3. ASSUME NEW t \in Threads, NEW s \in Scopes, NEW c \in BOOLEAN, EraseMark(t, s, c)
      PROVE  \A u \in Threads : Good(op'[u], disk')
  <2>1. disk'.tomb = disk.tomb \cup {s} /\ disk'.key = disk.key
    BY <1>3 DEF EraseMark, TypeOK, Disks
  <2>2. Goto(t, s, "marked", 0, c) /\ \A u \in Threads : op[u].pc = "publish" => op[u].scope # s
    BY <1>3 DEF EraseMark, CanExclude, Retained
  <2> QED
    BY <1>0, <2>1, <2>2 DEF Goto, TypeOK
<1>4. ASSUME NEW t \in Threads, NEW s \in Scopes, NEW g \in Nat, CanExclude(s),
             disk' = [disk EXCEPT !.key[s] = g]
      PROVE  \A u \in Threads : Good(op[u], disk')
  <2>1. disk'.tomb = disk.tomb /\ disk'.key = [disk.key EXCEPT ![s] = g]
    BY <1>4, KeyWriteType DEF TypeOK
  <2>2. \A u \in Threads : op[u].pc = "publish" => op[u].scope # s
    BY <1>4 DEF CanExclude, Retained
  <2>3. disk.key \in [Scopes -> Nat]
    BY DEF TypeOK, Disks
  <2> QED
    BY <1>0, <2>1, <2>2, <2>3
<1> DEFINE Moves(t) == /\ \A u \in Threads \ {t} : op'[u] = op[u]
                      /\ op'[t].pc \notin {"marked", "fenced", "publish"}
<1>5. ASSUME NEW t \in Threads, Moves(t), \A u \in Threads : Good(op[u], disk')
      PROVE  \A u \in Threads : Good(op'[u], disk')
  BY <1>5
<1>6. ASSUME disk' = disk PROVE \A u \in Threads : Good(op[u], disk')
  BY <1>0, <1>6
<1>7. ASSUME disk'.tomb = disk.tomb, disk'.key = disk.key
      PROVE  \A u \in Threads : Good(op[u], disk')
  BY <1>0, <1>7
<1>8. ASSUME NEW t \in Threads, EncodeCreate(t) \/ PrepareScopeKey(t)
      PROVE  \A u \in Threads : Good(op'[u], disk')
  <2> DEFINE s == op[t].scope
  <2>1. s \in Scopes
    BY <1>8, OpType DEF EncodeCreate, PrepareScopeKey, TypeOK
  <2>2. KeyFor(s) \in Nat
    BY <2>1 DEF KeyFor, TypeOK, Disks
  <2>3. \/ disk' = disk
        \/ CanExclude(s) /\ disk' = [disk EXCEPT !.key[s] = KeyFor(s)]
    BY <1>8 DEF EncodeCreate, PrepareScopeKey
  <2>4. \A u \in Threads : Good(op[u], disk')
    BY <1>4, <1>6, <2>1, <2>2, <2>3
  <2>5. \/ Return(t) \/ Goto(t, s, "append", KeyFor(s), FALSE)
        \/ Goto(t, s, "prepared", disk.key[s], FALSE)
        \/ Goto(t, s, "prepared", KeyFor(s), FALSE)
    BY <1>8, Zenon DEF EncodeCreate, PrepareScopeKey
  <2>6. Moves(t)
    BY <2>5 DEF Goto, Return, Idle, TypeOK
  <2> QED
    BY <1>5, <2>4, <2>6
<1>9. ASSUME NEW t \in Threads, Append_(t) \/ Publish(t)
      PROVE  \A u \in Threads : Good(op'[u], disk')
  <2>1. op[t].scope \in Scopes /\ op[t].gen \in Nat
    BY <1>9, OpType DEF Append_, Publish, TypeOK
  <2>2. disk'.tomb = disk.tomb /\ disk'.key = disk.key
    BY <1>9, <2>1, RowWriteType DEF Append_, Publish, TypeOK
  <2>3. Return(t) \/ Goto(t, op[t].scope, "prepared", op[t].gen, FALSE)
    BY <1>9 DEF Append_, Publish
  <2>4. Moves(t)
    BY <2>3 DEF Goto, Return, Idle, TypeOK
  <2> QED
    BY <1>5, <1>7, <2>2, <2>4
<1>10. ASSUME NEW t \in Threads, Retain(t) PROVE \A u \in Threads : Good(op'[u], disk')
  <2>1. disk' = disk
    BY <1>10 DEF Retain
  <2>2. CASE Return(t)
    <3>1. Moves(t)
      BY <2>2 DEF Return, Idle, TypeOK
    <3> QED
      BY <1>5, <1>6, <2>1, <3>1
  <2>3. CASE /\ Available(op[t].scope) /\ disk.key[op[t].scope] = op[t].gen
             /\ Goto(t, op[t].scope, "publish", op[t].gen, FALSE)
    BY <1>0, <2>1, <2>3 DEF Available, Goto, TypeOK
  <2> QED
    BY <1>10, <2>2, <2>3 DEF Retain
<1>11. ASSUME NEW t \in Threads, EraseFence(t) PROVE \A u \in Threads : Good(op'[u], disk')
  <2>1. disk' = disk /\ op[t].scope \in disk.tomb
    BY <1>0, <1>11 DEF EraseFence
  <2>2. Goto(t, op[t].scope, "fenced", 0, op[t].confirm)
    BY <1>11 DEF EraseFence
  <2> QED
    BY <1>0, <2>1, <2>2 DEF Goto, TypeOK
<1>12. ASSUME NEW t \in Threads, EraseUnlink(t) PROVE \A u \in Threads : Good(op'[u], disk')
  <2>1. op[t].scope \in Scopes /\ op[t].scope \in disk.tomb
    BY <1>0, <1>12, OpType DEF EraseUnlink, TypeOK
  <2>2. disk' = [disk EXCEPT !.key[op[t].scope] = 0]
    BY <1>12 DEF EraseUnlink
  <2>3. disk'.tomb = disk.tomb /\ disk'.key = [disk.key EXCEPT ![op[t].scope] = 0]
    BY <2>1, <2>2, KeyWriteType DEF TypeOK
  <2>4. disk.key \in [Scopes -> Nat]
    BY DEF TypeOK, Disks
  <2>5. \A u \in Threads : Good(op[u], disk')
    BY <1>0, <2>1, <2>3, <2>4
  <2>6. Goto(t, op[t].scope, "record", 0, op[t].confirm)
    BY <1>12 DEF EraseUnlink
  <2>7. Moves(t)
    BY <2>6 DEF Goto, TypeOK
  <2> QED
    BY <1>5, <2>5, <2>7
<1>13. ASSUME NEW t \in Threads, EraseRecord(t) PROVE \A u \in Threads : Good(op'[u], disk')
  <2>1. disk'.tomb = disk.tomb /\ disk'.key = disk.key
    BY <1>13 DEF EraseRecord, TypeOK, Disks
  <2>2. Return(t) \/ Goto(t, op[t].scope, "push", 0, TRUE)
    BY <1>13 DEF EraseRecord
  <2>3. Moves(t)
    BY <2>2 DEF Goto, Return, Idle, TypeOK
  <2> QED
    BY <1>5, <1>7, <2>1, <2>3
<1>14. ASSUME NEW t \in Threads, ErasePush(t) \/ EraseFails(t)
       PROVE  \A u \in Threads : Good(op'[u], disk')
  <2>1. disk' = disk /\ Return(t)
    BY <1>14 DEF ErasePush, EraseFails
  <2>2. Moves(t)
    BY <2>1 DEF Return, Idle, TypeOK
  <2> QED
    BY <1>5, <1>6, <2>1, <2>2
<1>15. ASSUME \/ \E s \in Scopes : Remember(s) \/ PushEnds(s)
              \/ FoldRead \/ FoldReadFails \/ Keep \/ Backup
       PROVE  UNCHANGED <<disk, op, up>>
  BY <1>15, Zenon DEF Remember, PushEnds, FoldRead, FoldReadFails, Keep, Backup
<1>16. CASE UNCHANGED <<disk, op, up>>
  BY <1>0, <1>16 DEF LockInv
<1>17. ASSUME \A u \in Threads : op'[u] = Idle
       PROVE  \A u \in Threads : Good(op'[u], disk')
  BY <1>b, <1>17
<1>18. CASE Crash
  BY <1>17, <1>18 DEF Crash, FreshMemory
<1>19. ASSUME \/ RestoreRoot \/ \E tomb \in SUBSET Scopes : RestoreKeys(tomb)
              \/ \E reach \in BOOLEAN, marked, swept, sent \in SUBSET Scopes :
                   Open(reach, marked, swept, sent)
       PROVE  ~up /\ op' = op
  BY <1>19, Zenon DEF RestoreRoot, RestoreKeys, Open
<1>20. CASE ~up /\ op' = op
  BY <1>17, <1>20 DEF LockInv
<1>21. ASSUME NEW t \in Threads,
              \/ \E s \in Scopes : Encode(t, s) \/ ConfirmScope(t, s)
              \/ \E s \in Scopes, c \in BOOLEAN : EraseMark(t, s, c)
              \/ EncodeCreate(t) \/ Append_(t) \/ PrepareScopeKey(t) \/ Retain(t)
              \/ Publish(t) \/ EraseFence(t) \/ EraseUnlink(t) \/ EraseRecord(t)
              \/ ErasePush(t) \/ EraseFails(t)
       PROVE  /\ \A u \in Threads : Good(op'[u], disk')
              /\ ~up' => \A u \in Threads : op'[u] = Idle
  <2>1. up /\ up' = up
    BY <1>21, Zenon DEF Encode, ConfirmScope, EraseMark, EncodeCreate, Append_,
       PrepareScopeKey, Retain, Publish, EraseFence, EraseUnlink, EraseRecord,
       ErasePush, EraseFails
  <2>2. \A u \in Threads : Good(op'[u], disk')
    BY <1>2, <1>3, <1>8, <1>9, <1>10, <1>11, <1>12, <1>13, <1>14, <1>21
  <2> QED
    BY <2>1, <2>2
<1> HIDE DEF Good
<1> QED
  BY <1>1, <1>15, <1>16, <1>17, <1>18, <1>19, <1>20, <1>21 DEF Next

(* `retain`: the shared lock held through the commit keeps erasers and     *)
(* minters out, so a publication always commits under a live key.          *)
THEOREM RetainedKeysLive == Spec => []RetainedKeyLive
<1>1. Init => LockInv
  BY DEF Init, LockInv, RetainedKeyLive, Idle
<1>2. LockInv => RetainedKeyLive
  BY DEF LockInv
<1> QED
  BY <1>1, <1>2, LockStep, TypeCorrect, PTL DEF Spec

(* No step of a serving process puts a key file beside a tombstone, a      *)
(* writer that found the key missing before the erasure included.          *)
THEOREM NoKeyAfterTombstone == Spec => NoReplacementKey
<1> DEFINE P == \A s \in disk.tomb : up /\ up' /\ disk.key[s] = 0 => disk'.key[s] = 0
<1>1. TypeOK /\ [Next]_vars => [P]_vars
  <2> SUFFICES ASSUME TypeOK, Next, NEW r \in disk.tomb, up, up', disk.key[r] = 0
               PROVE  disk'.key[r] = 0
    BY DEF NoReplacementKey
  <2>0. disk.key \in [Scopes -> Nat] /\ r \in Scopes
    BY DEF TypeOK, Disks
  <2> USE DEF history, memory
  <2>1. ASSUME NEW t \in Threads, EncodeCreate(t) \/ PrepareScopeKey(t)
        PROVE  disk'.key[r] = 0
    <3> DEFINE s == op[t].scope
    <3>1. s \in Scopes
      BY <2>1, OpType DEF EncodeCreate, PrepareScopeKey, TypeOK
    <3>2. KeyFor(s) \in Nat
      BY <2>0, <3>1 DEF KeyFor, TypeOK
    <3>3. \/ disk' = disk
          \/ Available(s) /\ disk' = [disk EXCEPT !.key[s] = KeyFor(s)]
      BY <2>1 DEF EncodeCreate, PrepareScopeKey, StillAvailable
    <3>4. CASE Available(s) /\ disk' = [disk EXCEPT !.key[s] = KeyFor(s)]
      <4>1. disk'.key = [disk.key EXCEPT ![s] = KeyFor(s)]
        BY <3>1, <3>2, <3>4, KeyWriteType DEF TypeOK
      <4>2. s # r
        BY <3>4 DEF Available
      <4> QED
        BY <2>0, <3>1, <4>1, <4>2
    <3> QED
      BY <3>3, <3>4
  <2>2. ASSUME NEW t \in Threads, Append_(t) \/ Publish(t)
        PROVE  disk'.key[r] = 0
    <3>1. op[t].scope \in Scopes /\ op[t].gen \in Nat
      BY <2>2, OpType DEF Append_, Publish, TypeOK
    <3>2. disk'.key = disk.key
      BY <2>2, <3>1, RowWriteType DEF Append_, Publish, TypeOK
    <3> QED
      BY <3>2
  <2>3. ASSUME NEW t \in Threads, EraseUnlink(t) PROVE disk'.key[r] = 0
    <3>1. op[t].scope \in Scopes
      BY <2>3, OpType DEF EraseUnlink, TypeOK
    <3>2. disk'.key = [disk.key EXCEPT ![op[t].scope] = 0]
      BY <2>3, <3>1, KeyWriteType DEF EraseUnlink, TypeOK
    <3> QED
      BY <2>0, <3>2
  <2>4. ASSUME NEW t \in Threads,
               EraseRecord(t) \/ \E s \in Scopes, c \in BOOLEAN : EraseMark(t, s, c)
        PROVE  disk'.key[r] = 0
    <3>1. disk'.key = disk.key
      BY <2>4 DEF EraseRecord, EraseMark, TypeOK, Disks
    <3> QED
      BY <3>1
  <2>5. ASSUME \/ \E s \in Scopes : Remember(s) \/ PushEnds(s)
               \/ FoldRead \/ FoldReadFails \/ Keep \/ Backup
               \/ \E t \in Threads, s \in Scopes : Encode(t, s) \/ ConfirmScope(t, s)
               \/ \E t \in Threads :
                    Retain(t) \/ EraseFence(t) \/ ErasePush(t) \/ EraseFails(t)
        PROVE  disk' = disk
    BY <2>5, Zenon DEF Remember, PushEnds, FoldRead, FoldReadFails, Keep, Backup, Encode,
       ConfirmScope, Retain, EraseFence, ErasePush, EraseFails
  <2>6. ASSUME \/ Crash \/ RestoreRoot \/ \E tomb \in SUBSET Scopes : RestoreKeys(tomb)
               \/ \E reach \in BOOLEAN, marked, swept, sent \in SUBSET Scopes :
                    Open(reach, marked, swept, sent)
        PROVE  ~up \/ ~up'
    BY <2>6, Zenon DEF Crash, RestoreRoot, RestoreKeys, Open
  <2> QED
    BY <2>1, <2>2, <2>3, <2>4, <2>5, <2>6 DEF Next
<1> QED
  BY <1>1, TypeCorrect, PTL DEF Spec, NoReplacementKey

-----------------------------------------------------------------------------
(* Remembered folds *)

(* An answer v about scope s is what a fold of the data root d gives now:  *)
(* nothing without rows; with rows only a live key outside the fence f was *)
(* ever folded.                                                            *)
Agreed(d, f, s, v) ==
  IF d.rows[s] = <<>>
  THEN v = {}
  ELSE /\ s \notin f
       /\ d.key[s] # 0
       /\ v = {i \in 1..Len(d.rows[s]) : d.rows[s][i] = d.key[s]}

(* An answer stamped with head h is good: its stamp is not of the future,  *)
(* and while the stamp is matched (c: the epoch did not move) it agrees.   *)
Good(d, f, s, v, h, c) ==
  /\ h <= Len(d.rows[s])
  /\ c /\ h = Len(d.rows[s]) => Agreed(d, f, s, v)

(* The inductive invariant behind the remembered folds: what is remembered *)
(* and what is about to be kept is good, a cached key is the one on disk,  *)
(* and a stopped process remembers nothing.                                *)
MemoInv ==
  /\ \A s \in Scopes : cache[s] \in {0, disk.key[s]}
  /\ \A s \in Scopes :
       memo[s].held => Good(disk, fence, s, memo[s].value, memo[s].head, memo[s].current)
  /\ read.pc = "keep" =>
       Good(disk, fence, read.scope, read.value, read.head, read.current)
  /\ read.pc = "fold" => read.value = {} /\ read.head <= Len(disk.rows[read.scope])
  /\ ~up => read = NoRead /\ \A s \in Scopes : memo[s] = NoMemo

(* A data root that follows d while the process serves: a scope's rows are *)
(* the same or more, its key changes only where there was none or where    *)
(* the scope is fenced.                                                    *)
Follows(d, e, f) ==
  \A s \in Scopes :
    /\ e.rows[s] = d.rows[s] \/ Len(d.rows[s]) < Len(e.rows[s])
    /\ e.key[s] = d.key[s] \/ d.key[s] = 0 \/ s \in f

(* Good answers stay good while the data root moves on: new rows outdate   *)
(* the stamp, and a key that goes was fenced first.                        *)
LEMMA GoodKept ==
  ASSUME NEW d \in Disks, NEW e \in Disks, NEW f, NEW s \in Scopes, NEW v,
         NEW h \in Nat, NEW c, Follows(d, e, f), Good(d, f, s, v, h, c)
  PROVE  Good(e, f, s, v, h, c)
<1>1. /\ d.rows[s] \in Seq(Nat) /\ e.rows[s] \in Seq(Nat)
      /\ e.rows[s] = d.rows[s] \/ Len(d.rows[s]) < Len(e.rows[s])
      /\ e.key[s] = d.key[s] \/ d.key[s] = 0 \/ s \in f
  BY DEF Follows, Disks
<1>2. CASE Len(d.rows[s]) < Len(e.rows[s])
  BY <1>1, <1>2 DEF Good
<1>3. CASE e.rows[s] = d.rows[s]
  BY <1>1, <1>3 DEF Good, Agreed
<1> QED
  BY <1>1, <1>2, <1>3

(* An answer whose stamp was overtaken asks nothing of the vault. *)
LEMMA StaleGood ==
  ASSUME NEW d, NEW f, NEW g, NEW s, NEW v, NEW h, NEW c, Good(d, f, s, v, h, c)
  PROVE  Good(d, g, s, v, h, FALSE)
BY DEF Good

(* A committed row outdates the stamps of its scope and of no other. *)
LEMMA RowFollows ==
  ASSUME disk \in Disks, NEW s \in Scopes, NEW g \in Nat, NEW f,
         disk' = [disk EXCEPT !.rows[s] = Append(@, g)]
  PROVE  Follows(disk, disk', f)
<1>1. disk.rows \in [Scopes -> Seq(Nat)]
  BY DEF Disks
<1>2. disk'.rows = [disk.rows EXCEPT ![s] = Append(disk.rows[s], g)]
  BY DEF Disks
<1>3. Len(Append(disk.rows[s], g)) = Len(disk.rows[s]) + 1
  BY <1>1
<1>4. Len(disk.rows[s]) \in Nat
  BY <1>1
<1>5. disk'.key = disk.key
  BY RowWriteType
<1> QED
  BY <1>1, <1>2, <1>3, <1>4, <1>5 DEF Follows

(* A step that moves only the data root keeps what is remembered good. *)
LEMMA DiskMoves ==
  ASSUME TypeOK, TypeOK', MemoInv, Follows(disk, disk', fence),
         UNCHANGED <<up, fence, read, memo>>,
         \A s \in Scopes : cache'[s] \in {0, disk'.key[s]}
  PROVE  MemoInv'
<1>1. disk \in Disks /\ disk' \in Disks
  BY DEF TypeOK
<1>2. ASSUME NEW s \in Scopes, memo[s].held
      PROVE  Good(disk', fence, s, memo[s].value, memo[s].head, memo[s].current)
  <2>1. memo[s].head \in Nat
    BY DEF TypeOK, Memos
  <2> QED
    BY <1>1, <1>2, <2>1, GoodKept DEF MemoInv
<1>3. ASSUME read.pc = "keep"
      PROVE  Good(disk', fence, read.scope, read.value, read.head, read.current)
  <2>1. read.scope \in Scopes /\ read.head \in Nat
    BY <1>3, ReadType DEF TypeOK
  <2> QED
    BY <1>1, <1>3, <2>1, GoodKept DEF MemoInv
<1>4. ASSUME read.pc = "fold"
      PROVE  read.value = {} /\ read.head <= Len(disk'.rows[read.scope])
  <2>1. read.scope \in Scopes /\ read.head \in Nat
    BY <1>4, ReadType DEF TypeOK
  <2>2. /\ disk.rows[read.scope] \in Seq(Nat) /\ disk'.rows[read.scope] \in Seq(Nat)
    BY <1>1, <2>1 DEF Disks
  <2>3. \/ disk'.rows[read.scope] = disk.rows[read.scope]
        \/ Len(disk.rows[read.scope]) < Len(disk'.rows[read.scope])
    BY <2>1 DEF Follows
  <2>4. read.value = {} /\ read.head <= Len(disk.rows[read.scope])
    BY <1>4 DEF MemoInv
  <2>5. Len(disk.rows[read.scope]) \in Nat /\ Len(disk'.rows[read.scope]) \in Nat
    BY <2>2
  <2>6. \A x, y, z \in Nat : x <= y /\ y < z => x <= z
    OBVIOUS
  <2> QED
    BY <2>1, <2>3, <2>4, <2>5, <2>6
<1> QED
  BY <1>2, <1>3, <1>4 DEF MemoInv

(* Remembered folds are preserved by every step. *)
LEMMA MemoStep ==
  TypeOK /\ TypeOK' /\ FenceInv /\ MemoInv /\ [Next]_vars => MemoInv'
<1> SUFFICES ASSUME TypeOK, TypeOK', FenceInv, MemoInv, [Next]_vars PROVE MemoInv'
  OBVIOUS
<1> USE DEF history, memory
<1>0. /\ disk \in Disks /\ disk.key \in [Scopes -> Nat]
      /\ disk.rows \in [Scopes -> Seq(Nat)] /\ cache \in [Scopes -> Nat]
  BY DEF TypeOK, Disks
<1>a. ASSUME NEW s \in Scopes
      PROVE  cache[s] \in {0, disk.key[s]} /\ (s \in fence => cache[s] = 0)
  BY DEF MemoInv, FenceInv
<1>b. ASSUME disk'.rows = disk.rows, disk'.key = disk.key, UNCHANGED <<up, fence, read, memo>>,
             \A s \in Scopes : cache'[s] \in {0, disk.key[s]}
      PROVE  MemoInv'
  <2>1. Follows(disk, disk', fence)
    BY <1>b DEF Follows
  <2> QED
    BY <1>b, <2>1, DiskMoves
<1>1. CASE UNCHANGED vars
  BY <1>1, <1>a, <1>b DEF vars
<1>2. ASSUME NEW t \in Threads, NEW s \in Scopes, Encode(t, s) PROVE MemoInv'
  <2>1. UNCHANGED <<disk, up, fence, read, memo>>
    BY <1>2 DEF Encode
  <2>2. \/ cache' = cache
        \/ cache' = [cache EXCEPT ![s] = disk.key[s]]
    BY <1>2 DEF Encode
  <2>3. \A r \in Scopes : cache'[r] \in {0, disk.key[r]}
    BY <1>0, <1>a, <2>2
  <2> QED
    BY <1>b, <2>1, <2>3
<1>3. ASSUME \/ \E t \in Threads, s \in Scopes : ConfirmScope(t, s)
             \/ \E t \in Threads : Retain(t) \/ ErasePush(t) \/ EraseFails(t)
             \/ \E s \in Scopes : PushEnds(s)
             \/ Backup
      PROVE  UNCHANGED <<disk, up, fence, cache, read, memo>>
  BY <1>3, Zenon DEF ConfirmScope, Retain, ErasePush, EraseFails, PushEnds, Backup
<1>4. CASE UNCHANGED <<disk, up, fence, cache, read, memo>>
  BY <1>4, <1>a, <1>b
<1>5. ASSUME NEW t \in Threads,
             EraseRecord(t) \/ \E s \in Scopes, c \in BOOLEAN : EraseMark(t, s, c)
      PROVE  MemoInv'
  <2>1. disk'.key = disk.key /\ disk'.rows = disk.rows
    BY <1>0, <1>5 DEF EraseRecord, EraseMark, Disks
  <2>2. UNCHANGED <<up, fence, cache, read, memo>>
    BY <1>5, Zenon DEF EraseRecord, EraseMark
  <2> QED
    BY <1>a, <1>b, <2>1, <2>2
<1>6. ASSUME NEW t \in Threads, Append_(t) \/ Publish(t) PROVE MemoInv'
  <2>1. op[t].scope \in Scopes /\ op[t].gen \in Nat
    BY <1>6, OpType DEF Append_, Publish, TypeOK
  <2>2. UNCHANGED <<up, fence, cache, read, memo>>
    BY <1>6, Zenon DEF Append_, Publish
  <2>3. \/ disk' = disk
        \/ disk' = [disk EXCEPT !.rows[op[t].scope] = Append(@, op[t].gen)]
    BY <1>6 DEF Append_, Publish
  <2>4. CASE disk' = disk
    BY <1>a, <1>b, <2>2, <2>4
  <2>5. CASE disk' = [disk EXCEPT !.rows[op[t].scope] = Append(@, op[t].gen)]
    <3>1. Follows(disk, disk', fence) /\ disk'.key = disk.key
      BY <1>0, <2>1, <2>5, RowFollows, RowWriteType
    <3> QED
      BY <1>a, <2>2, <3>1, DiskMoves
  <2> QED
    BY <2>3, <2>4, <2>5
<1>7. ASSUME NEW s \in Scopes, NEW g \in Nat, disk' = [disk EXCEPT !.key[s] = g],
             disk.key[s] \in {0, g} \/ s \in fence,
             cache' = cache \/ cache' = [cache EXCEPT ![s] = g],
             UNCHANGED <<up, fence, read, memo>>
      PROVE  MemoInv'
  <2>1. disk'.key = [disk.key EXCEPT ![s] = g] /\ disk'.rows = disk.rows
    BY <1>0, <1>7, KeyWriteType
  <2>2. Follows(disk, disk', fence)
    BY <1>0, <1>7, <2>1 DEF Follows
  <2>3. \A r \in Scopes : cache'[r] \in {0, disk'.key[r]}
    BY <1>0, <1>7, <1>a, <2>1
  <2> QED
    BY <1>7, <2>2, <2>3, DiskMoves
<1>8. ASSUME NEW t \in Threads, EncodeCreate(t) \/ PrepareScopeKey(t) PROVE MemoInv'
  <2> DEFINE s == op[t].scope
  <2>1. s \in Scopes
    BY <1>8, OpType DEF EncodeCreate, PrepareScopeKey, TypeOK
  <2>2. KeyFor(s) \in Nat /\ disk.key[s] \in {0, KeyFor(s)}
    BY <1>0, <2>1 DEF KeyFor, TypeOK
  <2>3. UNCHANGED <<up, fence, read, memo>>
    BY <1>8, Zenon DEF EncodeCreate, PrepareScopeKey
  <2>4. \/ disk' = disk /\ cache' = cache
        \/ /\ disk' = [disk EXCEPT !.key[s] = KeyFor(s)]
           /\ cache' = cache \/ cache' = [cache EXCEPT ![s] = KeyFor(s)]
    BY <1>8 DEF EncodeCreate, PrepareScopeKey
  <2>5. CASE disk' = disk /\ cache' = cache
    BY <1>a, <1>b, <2>3, <2>5
  <2> HIDE DEF s
  <2> QED
    BY <1>7, <2>1, <2>2, <2>3, <2>4, <2>5
<1>9. ASSUME NEW t \in Threads, EraseUnlink(t) PROVE MemoInv'
  <2>1. op[t].scope \in Scopes /\ op[t].scope \in fence
    BY <1>9, OpType DEF EraseUnlink, FenceInv, TypeOK
  <2>2. UNCHANGED <<up, fence, cache, read, memo>>
    BY <1>9, Zenon DEF EraseUnlink
  <2>3. disk' = [disk EXCEPT !.key[op[t].scope] = 0]
    BY <1>9 DEF EraseUnlink
  <2> QED
    BY <1>7, <2>1, <2>2, <2>3
<1>10. ASSUME UNCHANGED <<disk, up>>, up,
              memo' = [r \in Scopes |-> [memo[r] EXCEPT !.current = FALSE]]
       PROVE  \A r \in Scopes :
                memo'[r].held => Good(disk', fence', r, memo'[r].value, memo'[r].head,
                                      memo'[r].current)
  <2> SUFFICES ASSUME NEW r \in Scopes, memo'[r].held
               PROVE  Good(disk', fence', r, memo'[r].value, memo'[r].head, memo'[r].current)
    OBVIOUS
  <2>1. /\ memo[r].held /\ memo'[r].value = memo[r].value /\ memo'[r].head = memo[r].head
        /\ memo'[r].current = FALSE
    BY <1>10 DEF TypeOK, Memos
  <2>2. Good(disk, fence, r, memo[r].value, memo[r].head, memo[r].current)
    BY <2>1 DEF MemoInv
  <2>3. Good(disk, fence', r, memo[r].value, memo[r].head, FALSE)
    BY <2>2, StaleGood
  <2> QED
    BY <1>10, <2>1, <2>3
<1>11. ASSUME NEW t \in Threads, EraseFence(t) PROVE MemoInv'
  <2>1. UNCHANGED <<disk, up>> /\ up
    BY <1>11, Zenon DEF EraseFence
  <2>2. /\ memo' = [r \in Scopes |-> [memo[r] EXCEPT !.current = FALSE]]
        /\ read' = [read EXCEPT !.current = FALSE]
    BY <1>11 DEF EraseFence, EraseEpoch, AdvanceEpoch
  <2>3. cache' = [cache EXCEPT ![op[t].scope] = 0]
    BY <1>11 DEF EraseFence
  <2>4. \A r \in Scopes : cache'[r] \in {0, disk'.key[r]}
    BY <1>0, <1>a, <2>1, <2>3
  <2>5. /\ read'.pc = read.pc /\ read'.scope = read.scope /\ read'.value = read.value
        /\ read'.head = read.head /\ (read.pc # "idle" => read'.current = FALSE)
    BY <2>2 DEF TypeOK, Reads, NoRead
  <2>6. read'.pc = "keep" =>
          Good(disk', fence', read'.scope, read'.value, read'.head, read'.current)
    BY <2>1, <2>5, StaleGood DEF MemoInv
  <2> QED
    BY <1>10, <2>1, <2>2, <2>4, <2>5, <2>6 DEF MemoInv
<1>12. ASSUME NEW s \in Scopes, Remember(s) PROVE MemoInv'
  <2>1. /\ UNCHANGED <<disk, up, fence, cache, memo>> /\ up
        /\ read' = [pc |-> "fold", scope |-> s, value |-> {},
                    head |-> Len(disk.rows[s]), current |-> TRUE]
    BY <1>12 DEF Remember
  <2>2. Len(disk.rows[s]) \in Nat
    BY <1>0
  <2> QED
    BY <2>1, <2>2 DEF MemoInv
<1>13. ASSUME UNCHANGED <<disk, up, fence>>, up, read.pc = "fold", read'.pc = "keep",
              \A r \in Scopes : cache'[r] \in {0, disk.key[r]},
              \/ memo' = memo
              \/ memo' = [r \in Scopes |-> [memo[r] EXCEPT !.current = FALSE]],
              Good(disk, fence, read'.scope, read'.value, read'.head, read'.current)
       PROVE  MemoInv'
  BY <1>10, <1>13 DEF MemoInv
<1>14. CASE FoldRead
  <2> DEFINE s == read.scope
  <2>1. /\ s \in Scopes /\ read.pc = "fold" /\ read.head \in Nat /\ up
        /\ read \in [pc : {"fold", "keep"}, scope : Scopes, value : SUBSET Nat,
                     head : Nat, current : BOOLEAN]
    BY <1>14, ReadType DEF FoldRead, TypeOK
  <2>2. UNCHANGED <<disk, up, fence>>
    BY <1>14, Zenon DEF FoldRead
  <2>3. read.value = {} /\ read.head <= Len(disk.rows[s])
    BY <2>1 DEF MemoInv
  <2>4. CASE /\ disk.rows[s] = <<>> /\ read' = [read EXCEPT !.pc = "keep"]
             /\ UNCHANGED <<cache, memo>>
    <3>1. /\ read'.pc = "keep" /\ read'.scope = s /\ read'.value = {}
          /\ read'.head = read.head
      BY <2>1, <2>3, <2>4
    <3>2. Good(disk, fence, read'.scope, read'.value, read'.head, read'.current)
      BY <2>3, <2>4, <3>1 DEF Good, Agreed
    <3> QED
      BY <1>a, <1>13, <2>1, <2>2, <2>4, <3>1, <3>2
  <2>5. CASE /\ disk.rows[s] # <<>> /\ Resolves(s)
             /\ cache' = [cache EXCEPT ![s] = disk.key[s]]
             /\ read' = [read EXCEPT !.pc = "keep", !.value = Opened(s, disk.key[s])]
             /\ UNCHANGED memo
    <3>1. /\ read'.pc = "keep" /\ read'.scope = s /\ read'.head = read.head
          /\ read'.value = Opened(s, disk.key[s])
      BY <2>1, <2>5
    <3>2. s \notin fence /\ disk.key[s] # 0
      BY <2>1, <2>5, ResolvedNotFenced DEF Resolves
    <3>3. Good(disk, fence, read'.scope, read'.value, read'.head, read'.current)
      BY <2>3, <2>5, <3>1, <3>2 DEF Good, Agreed, Opened
    <3>4. \A r \in Scopes : cache'[r] \in {0, disk.key[r]}
      BY <1>0, <1>a, <2>5
    <3> QED
      BY <1>13, <2>1, <2>2, <2>5, <3>1, <3>3, <3>4
  <2>6. CASE /\ read' = [read EXCEPT !.pc = "keep", !.current = FALSE]
             /\ memo' = [r \in Scopes |-> [memo[r] EXCEPT !.current = FALSE]]
             /\ UNCHANGED cache
    <3>1. /\ read'.pc = "keep" /\ read'.scope = s /\ read'.head = read.head
          /\ read'.current = FALSE
      BY <2>1, <2>6
    <3>2. Good(disk, fence, read'.scope, read'.value, read'.head, read'.current)
      BY <2>3, <3>1 DEF Good
    <3> QED
      BY <1>a, <1>13, <2>1, <2>2, <2>6, <3>1, <3>2
  <2> QED
    BY <1>14, <2>4, <2>5, <2>6 DEF FoldRead
<1>15. CASE FoldReadFails
  <2>1. /\ read.pc = "fold" /\ up
        /\ read \in [pc : {"fold", "keep"}, scope : Scopes, value : SUBSET Nat,
                     head : Nat, current : BOOLEAN]
    BY <1>15, ReadType DEF FoldReadFails, TypeOK
  <2>2. /\ UNCHANGED <<disk, up, fence, cache>>
        /\ read' = [read EXCEPT !.pc = "keep", !.current = FALSE]
        /\ memo' = [r \in Scopes |-> [memo[r] EXCEPT !.current = FALSE]]
    BY <1>15, Zenon DEF FoldReadFails
  <2>3. /\ read'.pc = "keep" /\ read'.scope = read.scope /\ read'.head = read.head
        /\ read'.current = FALSE
    BY <2>1, <2>2
  <2>4. Good(disk, fence, read'.scope, read'.value, read'.head, read'.current)
    BY <2>1, <2>3 DEF Good, MemoInv
  <2> QED
    BY <1>a, <1>13, <2>1, <2>2, <2>3, <2>4
<1>16. CASE Keep
  <2>1. read.pc = "keep" /\ up /\ UNCHANGED <<disk, up, fence, cache>> /\ read' = NoRead
    BY <1>16, Zenon DEF Keep
  <2>2. memo' = [memo EXCEPT ![read.scope] =
                   [value |-> read.value, head |-> read.head, current |-> read.current,
                    held |-> TRUE]]
    BY <1>16 DEF Keep
  <2>3. \A r \in Scopes :
          memo'[r].held => Good(disk, fence, r, memo'[r].value, memo'[r].head,
                                memo'[r].current)
    BY <2>1, <2>2 DEF MemoInv, TypeOK
  <2> QED
    BY <2>1, <2>3 DEF MemoInv, NoRead
<1>17. CASE Crash
  <2>1. /\ cache' = [s \in Scopes |-> 0] /\ read' = NoRead
        /\ memo' = [s \in Scopes |-> NoMemo]
    BY <1>17 DEF Crash, FreshMemory
  <2> QED
    BY <2>1 DEF MemoInv, NoRead, NoMemo
<1>18. ASSUME \/ RestoreRoot \/ \E tomb \in SUBSET Scopes : RestoreKeys(tomb)
              \/ \E reach \in BOOLEAN, marked, swept, sent \in SUBSET Scopes :
                   Open(reach, marked, swept, sent)
       PROVE  ~up /\ UNCHANGED <<cache, read, memo>>
  BY <1>18, Zenon DEF RestoreRoot, RestoreKeys, Open
<1>19. CASE ~up /\ UNCHANGED <<cache, read, memo>>
  <2>1. /\ \A s \in Scopes : cache'[s] = 0 /\ memo'[s] = NoMemo
        /\ read' = NoRead
    BY <1>19 DEF MemoInv, FenceInv
  <2> QED
    BY <2>1 DEF MemoInv, NoRead, NoMemo
<1> QED
  BY <1>1, <1>2, <1>3, <1>4, <1>5, <1>6, <1>8, <1>9, <1>11, <1>12, <1>14, <1>15,
     <1>16, <1>17, <1>18, <1>19 DEF Next

(* `read_stamp` for every number of scopes, threads, rows and faults: a    *)
(* remembered fold whose stamp is matched is what the fold would answer    *)
(* now.                                                                    *)
THEOREM RememberedFoldsAgree == Spec => []MemoAgrees
<1>1. Init => MemoInv
  BY DEF Init, MemoInv, FreshRoot, NoRead, NoMemo
<1>2. TypeOK /\ FenceInv /\ MemoInv => MemoAgrees
  <2> SUFFICES ASSUME TypeOK, FenceInv, MemoInv, NEW s \in Scopes,
                      memo[s].held, memo[s].current, memo[s].head = Len(disk.rows[s]),
                      Available(s) \/ s \in fence
               PROVE  memo[s].value = IF Resolves(s) THEN Opened(s, disk.key[s]) ELSE {}
    BY DEF MemoAgrees
  <2>1. Agreed(disk, fence, s, memo[s].value)
    BY DEF MemoInv, Good
  <2>2. CASE disk.rows[s] = <<>>
    <3>1. memo[s].value = {} /\ Opened(s, disk.key[s]) = {}
      BY <2>1, <2>2 DEF Agreed, Opened
    <3> QED
      BY <3>1
  <2>3. CASE disk.rows[s] # <<>>
    <3>1. /\ s \notin fence /\ disk.key[s] # 0
          /\ memo[s].value = Opened(s, disk.key[s])
      BY <2>1, <2>3 DEF Agreed, Opened
    <3>2. Resolves(s)
      BY <3>1 DEF Resolves, MemoInv
    <3> QED
      BY <3>1, <3>2
  <2> QED
    BY <2>2, <2>3
<1> QED
  BY <1>1, <1>2, MemoStep, Fenced, TypeCorrect, PTL DEF Spec
=============================================================================
