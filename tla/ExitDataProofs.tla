---------------------------- MODULE ExitDataProofs ----------------------------
(***************************************************************************)
(* Proof that setExitData called from one Java thread never writes past   *)
(* the buffer it allocated: malloc((length + 1) * sizeof(_TCHAR* )) has    *)
(* room for length characters and the terminator, because a pointer is    *)
(* never smaller than a character, and with one caller exitData still     *)
(* names that buffer at the copy and at the terminator.                   *)
(***************************************************************************)
EXTENDS ExitData, TLAPS

Chars == Int \X Int

(* A buffer: its capacity and the characters at its positions. *)
Contents == UNION {[D -> Chars] : D \in SUBSET Int}

BufSet == [cap : Nat, content : Contents]

EdTypeOK ==
  /\ bufs \in Seq(BufSet)
  /\ tpc \in [Threads -> {"idle", "malloc", "copy", "term"}]
  /\ arg \in [Threads -> [id : Int, len : Nat, enc : Nat]]
  /\ issued \in Seq(Nat)
  /\ overflow \in BOOLEAN

(* Between malloc and the terminator, exitData names the caller's buffer, *)
(* which has room for the string and its terminator.                      *)
RoomForCall(t) ==
  tpc[t] \in {"copy", "term"} =>
    /\ exitData \in 1..Len(bufs)
    /\ bufs[exitData].cap >= arg[t].len + 1

EInv(T) == EdTypeOK /\ RoomForCall(T) /\ NoOverflow

(* (length + 1) * sizeof(_TCHAR* ) bytes hold length + 1 characters. *)
LEMMA CapBound ==
  ASSUME NEW l \in Nat
  PROVE  ((l + 1) * PtrSize) \div CharSize >= l + 1
<1> DEFINE a == (l + 1) * PtrSize
           q == a \div CharSize
<1>1. a >= (l + 1) * CharSize /\ a \in Nat
  BY ExitDataAssumption
<1>2. a < (q + 1) * CharSize
  <2>1. a = q * CharSize + (a % CharSize) /\ (a % CharSize) < CharSize
    BY <1>1, ExitDataAssumption
  <2>2. QED
    BY <2>1, ExitDataAssumption
<1>3. q \in Int
  BY <1>1, ExitDataAssumption
<1>4. QED
  <2> SUFFICES ASSUME q < l + 1 PROVE FALSE
    BY <1>3
  <2>1. (q + 1) * CharSize <= (l + 1) * CharSize
    <3>1. q + 1 <= l + 1 /\ q + 1 \in Int /\ CharSize \in Nat
      BY <1>3, ExitDataAssumption
    <3>2. \A x, y \in Int, c \in Nat : x <= y => x * c <= y * c
      OBVIOUS
    <3>3. QED
      BY <3>1, <3>2
  <2>2. QED
    <3> DEFINE x == (q + 1) * CharSize
               y == (l + 1) * CharSize
    <3>1. a >= y /\ a < x /\ x <= y
      BY <1>1, <1>2, <2>1
    <3>2. a \in Int /\ x \in Int /\ y \in Int
      BY <1>1, <1>3, ExitDataAssumption
    <3> HIDE DEF x, y, a
    <3>3. QED
      BY <3>1, <3>2

LEMMA InitEInv == ASSUME NEW T \in Threads PROVE Init => EInv(T)
<1> SUFFICES ASSUME Init PROVE EInv(T)
  OBVIOUS
<1>1. bufs \in Seq(BufSet)
  BY DEF Init
<1>2. tpc \in [Threads -> {"idle", "malloc", "copy", "term"}] /\ tpc[T] = "idle"
  BY DEF Init
<1>3. arg \in [Threads -> [id : Int, len : Nat, enc : Nat]]
  <2>1. [id |-> 0, len |-> 0, enc |-> 0] \in [id : Int, len : Nat, enc : Nat]
    OBVIOUS
  <2>2. QED
    BY <2>1 DEF Init
<1>4. overflow = FALSE /\ issued \in Seq(Nat)
  BY DEF Init
<1>5. QED
  BY <1>1, <1>2, <1>3, <1>4 DEF EInv, EdTypeOK, RoomForCall, NoOverflow

(* A store of characters into buffer b keeps the buffers' shape and     *)
(* capacities, and overflows exactly when a position is past b's end.    *)
LEMMA StoreKeeps ==
  ASSUME NEW b, NEW D \in SUBSET Int, NEW chars \in [D -> Chars],
         bufs \in Seq(BufSet), b \in 1..Len(bufs), overflow \in BOOLEAN,
         Store(b, chars)
  PROVE  /\ bufs' \in Seq(BufSet)
         /\ Len(bufs') = Len(bufs)
         /\ bufs'[b].cap = bufs[b].cap
         /\ overflow' = (overflow \/ \E k \in D : k >= bufs[b].cap)
<1> DEFINE old == bufs[b]
           new == [k \in DOMAIN old.content |->
                     IF k \in DOMAIN chars THEN chars[k] ELSE old.content[k]]
<1>0. old \in BufSet
  BY DEF old
<1>1. bufs' = [bufs EXCEPT ![b] = [cap |-> old.cap, content |-> new]]
  <2>1. old = [cap |-> old.cap, content |-> old.content]
    BY <1>0 DEF BufSet
  <2>2. [old EXCEPT !.content = new] = [cap |-> old.cap, content |-> new]
    BY <2>1
  <2>3. bufs' = [bufs EXCEPT ![b] = [old EXCEPT !.content = new]]
    BY DEF Store
  <2>4. QED
    BY <2>2, <2>3
<1>2. [cap |-> old.cap, content |-> new] \in BufSet
  <2>1. PICK E \in SUBSET Int : old.content \in [E -> Chars]
    BY <1>0 DEF BufSet, Contents
  <2>2. new \in [E -> Chars]
    BY <2>1
  <2>3. new \in Contents
    BY <2>2 DEF Contents
  <2>4. QED
    BY <1>0, <2>3 DEF BufSet
<1>3. bufs' \in Seq(BufSet) /\ Len(bufs') = Len(bufs) /\ bufs'[b].cap = old.cap
  BY <1>1, <1>2
<1>4. overflow' = (overflow \/ \E k \in D : k >= old.cap)
  BY DEF Store
<1>5. QED
  BY <1>3, <1>4

(* The native form of a string has a length. *)
LEMMA EncodedLengthsNat ==
  ASSUME NEW l \in Nat
  PROVE  EncodedLengths(l) \subseteq Nat
<1>1. CASE Unicode
  BY <1>1 DEF EncodedLengths
<1>2. CASE ~Unicode
  <2>1. (l + 1) \div 2 \in Nat
    OBVIOUS
  <2>2. QED
    BY <1>2, <2>1, ExitDataAssumption DEF EncodedLengths
<1>3. QED
  BY <1>1, <1>2

LEMMA EInvStep ==
  ASSUME NEW T, Threads = {T}, EInv(T), [Next]_edVars
  PROVE  EInv(T)'
<1> USE DEF EInv, EdTypeOK, RoomForCall, NoOverflow
<1>1. CASE Call(T)
  <2>1. PICK l \in Lengths : \E e \in EncodedLengths(l) :
          /\ arg' = [arg EXCEPT ![T] = [id |-> Len(issued) + 1, len |-> l, enc |-> e]]
          /\ issued' = Append(issued, e)
    BY <1>1 DEF Call
  <2>2. l \in Nat
    BY ExitDataAssumption
  <2>3. PICK e \in EncodedLengths(l) :
          /\ arg' = [arg EXCEPT ![T] = [id |-> Len(issued) + 1, len |-> l, enc |-> e]]
          /\ issued' = Append(issued, e)
    BY <2>1
  <2>4. e \in Nat
    BY <2>2, EncodedLengthsNat
  <2>5. QED
    BY <1>1, <2>2, <2>3, <2>4 DEF Call
<1>2. CASE Malloc(T)
  <2> DEFINE cap == ((arg[T].len + 1) * PtrSize) \div CharSize
             buf == [cap |-> cap, content |-> [k \in 0..(cap - 1) |-> Junk]]
  <2>1. cap >= arg[T].len + 1 /\ cap \in Nat
    <3>1. cap >= arg[T].len + 1
      BY CapBound
    <3>2. QED
      BY <3>1, ExitDataAssumption
  <2>2. buf \in BufSet
    <3>1. [k \in 0..(cap - 1) |-> Junk] \in [0..(cap - 1) -> Chars]
      BY DEF Junk, Chars
    <3>2. QED
      BY <2>1, <3>1 DEF BufSet, Contents
  <2>3. bufs' = Append(bufs, buf) /\ exitData' = Len(bufs) + 1
    BY <1>2 DEF Malloc
  <2>4. QED
    BY <1>2, <2>1, <2>2, <2>3 DEF Malloc
<1>3. CASE Copy(T)
  <2> DEFINE chars == Copied(T, arg[T].len)
  <2>1. chars \in [0..(arg[T].len - 1) -> Chars]
    BY DEF Copied, NulChar, Chars
  <2>2. Store(exitData, chars)
    BY <1>3 DEF Copy
  <2>3. /\ bufs' \in Seq(BufSet)
        /\ Len(bufs') = Len(bufs)
        /\ bufs'[exitData].cap = bufs[exitData].cap
        /\ overflow' = (overflow \/ \E k \in 0..(arg[T].len - 1) : k >= bufs[exitData].cap)
    <3>1. exitData \in 1..Len(bufs) /\ bufs \in Seq(BufSet) /\ overflow \in BOOLEAN
      BY <1>3 DEF Copy
    <3>2. 0..(arg[T].len - 1) \in SUBSET Int
      BY DEF EdTypeOK
    <3>3. QED
      BY <2>1, <2>2, <3>1, <3>2, StoreKeeps
  <2>4. overflow' = FALSE
    <3>0. bufs[exitData].cap \in Nat
      <4>1. exitData \in 1..Len(bufs) /\ bufs \in Seq(BufSet)
        BY <1>3 DEF Copy
      <4>2. bufs[exitData] \in BufSet
        BY <4>1
      <4>3. QED
        BY <4>2 DEF BufSet
    <3>1. bufs[exitData].cap >= arg[T].len + 1 /\ arg[T].len \in Nat /\ ~overflow
      BY <1>3 DEF Copy
    <3>2. ~\E k \in 0..(arg[T].len - 1) : k >= bufs[exitData].cap
      BY <3>0, <3>1
    <3>3. QED
      BY <2>3, <3>2, <3>1
  <2>5. tpc' \in [Threads -> {"idle", "malloc", "copy", "term"}] /\ tpc'[T] = "term"
    BY <1>3 DEF Copy
  <2>6. UNCHANGED <<exitData, arg, issued>>
    BY <1>3 DEF Copy
  <2>7. exitData \in 1..Len(bufs) /\ bufs[exitData].cap >= arg[T].len + 1
    BY <1>3 DEF Copy
  <2>8. QED
    BY <2>3, <2>4, <2>5, <2>6, <2>7
<1>4. CASE Terminate(T)
  <2> DEFINE chars == [k \in {arg[T].len} |-> NulChar]
  <2>1. chars \in [{arg[T].len} -> Chars]
    BY DEF NulChar, Chars
  <2>2. Store(exitData, chars)
    BY <1>4 DEF Terminate
  <2>3. /\ bufs' \in Seq(BufSet)
        /\ Len(bufs') = Len(bufs)
        /\ bufs'[exitData].cap = bufs[exitData].cap
        /\ overflow' = (overflow \/ \E k \in {arg[T].len} : k >= bufs[exitData].cap)
    <3>1. exitData \in 1..Len(bufs) /\ bufs \in Seq(BufSet) /\ overflow \in BOOLEAN
      BY <1>4 DEF Terminate
    <3>2. {arg[T].len} \in SUBSET Int
      BY DEF EdTypeOK
    <3>3. QED
      BY <2>1, <2>2, <3>1, <3>2, StoreKeeps
  <2>4. overflow' = FALSE
    <3>0. bufs[exitData].cap \in Nat
      <4>1. exitData \in 1..Len(bufs) /\ bufs \in Seq(BufSet)
        BY <1>4 DEF Terminate
      <4>2. bufs[exitData] \in BufSet
        BY <4>1
      <4>3. QED
        BY <4>2 DEF BufSet
    <3>1. bufs[exitData].cap >= arg[T].len + 1 /\ arg[T].len \in Nat /\ ~overflow
      BY <1>4 DEF Terminate
    <3>2. ~\E k \in {arg[T].len} : k >= bufs[exitData].cap
      BY <3>0, <3>1
    <3>3. QED
      BY <2>3, <3>2, <3>1
  <2>5. tpc' \in [Threads -> {"idle", "malloc", "copy", "term"}] /\ tpc'[T] = "idle"
    BY <1>4 DEF Terminate
  <2>6. UNCHANGED <<exitData, arg, issued>>
    BY <1>4 DEF Terminate
  <2>7. exitData \in 1..Len(bufs) /\ bufs[exitData].cap >= arg[T].len + 1
    BY <1>4 DEF Terminate
  <2>8. QED
    BY <2>3, <2>4, <2>5, <2>6, <2>7
<1>5. CASE UNCHANGED edVars
  BY <1>5 DEF edVars
<1>6. QED
  BY <1>1, <1>2, <1>3, <1>4, <1>5 DEF Next

(* With one Java thread calling set_exit_data, however many calls it     *)
(* makes and whatever their lengths, setExitData never writes past the    *)
(* buffer it allocated (the malloc of (length + 1) * sizeof(_TCHAR* ), the *)
(* _tcsncpy and the terminator): NoOverflow holds in every reachable      *)
(* state.                                                                 *)
THEOREM SequentialNoOverflow ==
  ASSUME NEW T, Threads = {T} PROVE Spec => []NoOverflow
<1>1. Init => EInv(T)
  BY InitEInv
<1>2. EInv(T) /\ [Next]_edVars => EInv(T)'
  BY EInvStep
<1>3. EInv(T) => NoOverflow
  BY DEF EInv
<1>4. QED
  BY <1>1, <1>2, <1>3, PTL DEF Spec

-----------------------------------------------------------------------------
(***************************************************************************)
(* Proof that, with one Java thread, exitData holds exactly the string of *)
(* the last call once that call has returned.                             *)
(***************************************************************************)

(* Every buffer has the positions malloc gave it. *)
BufShape ==
  \A b \in 1..Len(bufs) : DOMAIN bufs[b].content = 0..(bufs[b].cap - 1)

(* From its first call on, the thread's argument is the last call issued, *)
(* and (in a UNICODE build) its native string has GetStringLength units.  *)
CallIssued(t) ==
  tpc[t] # "idle" \/ exitData # NULL =>
    /\ arg[t].id \in 1..Len(issued)
    /\ arg[t].id = Len(issued)
    /\ issued[arg[t].id] = arg[t].enc
    /\ arg[t].enc = arg[t].len

(* After the copy the buffer holds the string, and after the terminator   *)
(* the NUL follows it inside the buffer.                                   *)
Written(t) ==
  LET c == bufs[exitData].content
      n == arg[t].len
  IN  /\ tpc[t] \in {"term", "idle"} /\ exitData # NULL =>
           \A k \in 0..(n - 1) : c[k] = <<arg[t].id, k>>
      /\ tpc[t] = "idle" /\ exitData # NULL =>
           c[n] = NulChar /\ bufs[exitData].cap >= n + 1

SInv(T) ==
  /\ EInv(T)
  /\ exitData \in 0..Len(bufs)
  /\ BufShape
  /\ CallIssued(T)
  /\ Written(T)

(* A store into buffer b leaves the other buffers alone, keeps b's        *)
(* positions, and puts chars at the positions it names.                   *)
LEMMA StoreContent ==
  ASSUME NEW b, NEW chars,
         bufs \in Seq(BufSet), b \in 1..Len(bufs), Store(b, chars)
  PROVE  /\ Len(bufs') = Len(bufs)
         /\ \A b2 \in 1..Len(bufs) : b2 # b => bufs'[b2] = bufs[b2]
         /\ bufs'[b].cap = bufs[b].cap
         /\ DOMAIN bufs'[b].content = DOMAIN bufs[b].content
         /\ \A k \in DOMAIN bufs[b].content :
              bufs'[b].content[k] =
                IF k \in DOMAIN chars THEN chars[k] ELSE bufs[b].content[k]
<1> DEFINE old == bufs[b]
           new == [k \in DOMAIN old.content |->
                     IF k \in DOMAIN chars THEN chars[k] ELSE old.content[k]]
<1>0. old \in BufSet
  BY DEF old
<1>1. bufs' = [bufs EXCEPT ![b] = [cap |-> old.cap, content |-> new]]
  <2>1. old = [cap |-> old.cap, content |-> old.content]
    BY <1>0 DEF BufSet
  <2>2. [old EXCEPT !.content = new] = [cap |-> old.cap, content |-> new]
    BY <2>1
  <2>3. bufs' = [bufs EXCEPT ![b] = [old EXCEPT !.content = new]]
    BY DEF Store
  <2>4. QED
    BY <2>2, <2>3
<1>2. bufs'[b].content = new /\ bufs'[b].cap = old.cap
  BY <1>1
<1>3. Len(bufs') = Len(bufs)
  BY <1>1
<1>4. QED
  BY <1>1, <1>2, <1>3

(* Init states satisfy the strengthened invariant. *)
LEMMA InitSInv == ASSUME NEW T \in Threads PROVE Init => SInv(T)
<1> SUFFICES ASSUME Init PROVE SInv(T)
  OBVIOUS
<1>1. EInv(T)
  BY InitEInv
<1>2. exitData \in 0..Len(bufs) /\ BufShape
  BY DEF Init, NULL, BufShape
<1>3. tpc[T] = "idle" /\ exitData = NULL
  BY DEF Init
<1>4. CallIssued(T) /\ Written(T)
  BY <1>3 DEF CallIssued, Written
<1>5. QED
  BY <1>1, <1>2, <1>4 DEF SInv

(* Each step of the one thread keeps the strengthened invariant.        *)
LEMMA SInvStep ==
  ASSUME NEW T, Threads = {T}, Unicode, SInv(T), [Next]_edVars
  PROVE  SInv(T)'
<1> USE DEF SInv
<1>0. EInv(T)'
  BY EInvStep
<1>a. bufs \in Seq(BufSet) /\ issued \in Seq(Nat) /\ arg[T] \in [id : Int, len : Nat, enc : Nat]
  BY DEF EInv, EdTypeOK
<1>1. CASE Call(T)
  <2>0. PICK l \in Lengths : \E e \in EncodedLengths(l) :
          /\ arg' = [arg EXCEPT ![T] = [id |-> Len(issued) + 1, len |-> l, enc |-> e]]
          /\ issued' = Append(issued, e)
    BY <1>1 DEF Call
  <2>1. /\ arg' = [arg EXCEPT ![T] = [id |-> Len(issued) + 1, len |-> l, enc |-> l]]
        /\ issued' = Append(issued, l)
    BY <2>0 DEF EncodedLengths
  <2>2. l \in Nat /\ T \in DOMAIN arg
    BY ExitDataAssumption, <1>a DEF EInv, EdTypeOK
  <2>3. UNCHANGED <<exitData, bufs>> /\ tpc'[T] = "malloc"
    BY <1>1 DEF Call, EInv, EdTypeOK
  <2>4. CallIssued(T)'
    <3>1. arg'[T] = [id |-> Len(issued) + 1, len |-> l, enc |-> l]
      BY <2>1, <2>2
    <3>2. Len(issued') = Len(issued) + 1 /\ issued'[Len(issued) + 1] = l
      BY <2>1, <2>2, <1>a
    <3>3. QED
      BY <3>1, <3>2, <1>a DEF CallIssued
  <2>5. Written(T)'
    BY <2>3 DEF Written
  <2>6. QED
    BY <1>0, <2>3, <2>4, <2>5 DEF BufShape
<1>2. CASE Malloc(T)
  <2> DEFINE cap == ((arg[T].len + 1) * PtrSize) \div CharSize
             buf == [cap |-> cap, content |-> [k \in 0..(cap - 1) |-> Junk]]
  <2>1. bufs' = Append(bufs, buf) /\ exitData' = Len(bufs) + 1
    BY <1>2 DEF Malloc
  <2>2. UNCHANGED <<arg, issued>> /\ tpc[T] = "malloc" /\ tpc'[T] = "copy"
    BY <1>2 DEF Malloc, EInv, EdTypeOK
  <2>3. exitData' \in 0..Len(bufs')
    BY <2>1, <1>a
  <2>4. BufShape'
    <3>1. \A b \in 1..Len(bufs) : bufs'[b] = bufs[b]
      BY <2>1, <1>a
    <3>2. bufs'[Len(bufs) + 1] = buf /\ Len(bufs') = Len(bufs) + 1
      BY <2>1, <1>a
    <3>3. QED
      BY <3>1, <3>2 DEF BufShape
  <2>5. CallIssued(T)'
    BY <2>2 DEF CallIssued
  <2>6. Written(T)'
    BY <2>2 DEF Written
  <2>7. QED
    BY <1>0, <2>3, <2>4, <2>5, <2>6
<1>3. CASE Copy(T)
  <2> DEFINE n     == arg[T].len
             chars == Copied(T, n)
             c     == bufs[exitData].content
  <2>1. tpc[T] = "copy" /\ tpc'[T] = "term" /\ UNCHANGED <<exitData, arg, issued>>
    BY <1>3 DEF Copy, EInv, EdTypeOK
  <2>2. exitData \in 1..Len(bufs) /\ bufs[exitData].cap >= n + 1
    BY <2>1 DEF EInv, RoomForCall
  <2>3. chars \in [0..(n - 1) -> Chars] /\ Store(exitData, chars)
    BY <1>3, <1>a DEF Copy, Copied, NulChar, Chars
  <2>c. DOMAIN chars = 0..(n - 1) /\ \A k \in 0..(n - 1) : chars[k] = <<arg[T].id, k>>
    <3>1. arg[T].enc = n
      <4>1. tpc[T] # "idle"
        BY <2>1
      <4>2. CallIssued(T)
        BY DEF SInv
      <4>3. QED
        BY <4>1, <4>2, Zenon DEF CallIssued
    <3>2. QED
      BY <3>1, <1>a DEF Copied
  <2> HIDE DEF chars
  <2>4. /\ \A b2 \in 1..Len(bufs) : b2 # exitData => bufs'[b2] = bufs[b2]
        /\ DOMAIN bufs'[exitData].content = DOMAIN c
        /\ \A k \in DOMAIN c :
             bufs'[exitData].content[k] = IF k \in DOMAIN chars THEN chars[k] ELSE c[k]
    <3>1. exitData \in 1..Len(bufs) /\ bufs \in Seq(BufSet) /\ Store(exitData, chars)
      BY <2>2, <2>3, <1>a
    <3>2. QED
      BY <3>1, StoreContent
  <2>5. Len(bufs') = Len(bufs) /\ bufs'[exitData].cap = bufs[exitData].cap
    <3>1. exitData \in 1..Len(bufs) /\ bufs \in Seq(BufSet) /\ Store(exitData, chars)
      BY <2>2, <2>3, <1>a
    <3>2. QED
      BY <3>1, StoreContent
  <2>6. DOMAIN c = 0..(bufs[exitData].cap - 1) /\ bufs[exitData].cap \in Nat
    <3>1. DOMAIN c = 0..(bufs[exitData].cap - 1)
      BY <2>2 DEF BufShape
    <3>2. bufs[exitData] \in BufSet
      BY <2>2, <1>a
    <3>3. QED
      BY <3>1, <3>2 DEF BufSet
  <2>7. BufShape'
    BY <2>4, <2>5, <2>6, <2>1 DEF BufShape
  <2>8. Written(T)'
    <3>1. \A k \in 0..(n - 1) : bufs'[exitData].content[k] = <<arg[T].id, k>>
      <4> SUFFICES ASSUME NEW k \in 0..(n - 1)
                   PROVE  bufs'[exitData].content[k] = <<arg[T].id, k>>
        OBVIOUS
      <4>1. k \in DOMAIN c /\ k \in DOMAIN chars
        BY <2>6, <2>2, <2>c, <1>a
      <4>2. QED
        BY <4>1, <2>4, <2>c
    <3>2. QED
      BY <3>1, <2>1 DEF Written
  <2>9. QED
    BY <1>0, <2>1, <2>2, <2>5, <2>7, <2>8 DEF CallIssued
<1>4. CASE Terminate(T)
  <2> DEFINE n     == arg[T].len
             chars == [k \in {n} |-> NulChar]
             c     == bufs[exitData].content
  <2>1. tpc[T] = "term" /\ tpc'[T] = "idle" /\ UNCHANGED <<exitData, arg, issued>>
    BY <1>4 DEF Terminate, EInv, EdTypeOK
  <2>2. exitData \in 1..Len(bufs) /\ bufs[exitData].cap >= n + 1
    BY <2>1 DEF EInv, RoomForCall
  <2>3. chars \in [{n} -> Chars] /\ Store(exitData, chars)
    BY <1>4 DEF Terminate, Chars, NulChar
  <2>c. DOMAIN chars = {n} /\ chars[n] = NulChar
    OBVIOUS
  <2> HIDE DEF chars
  <2>4. /\ \A b2 \in 1..Len(bufs) : b2 # exitData => bufs'[b2] = bufs[b2]
        /\ DOMAIN bufs'[exitData].content = DOMAIN c
        /\ \A k \in DOMAIN c :
             bufs'[exitData].content[k] = IF k \in DOMAIN chars THEN chars[k] ELSE c[k]
    <3>1. exitData \in 1..Len(bufs) /\ bufs \in Seq(BufSet) /\ Store(exitData, chars)
      BY <2>2, <2>3, <1>a
    <3>2. QED
      BY <3>1, StoreContent
  <2>5. Len(bufs') = Len(bufs) /\ bufs'[exitData].cap = bufs[exitData].cap
    <3>1. exitData \in 1..Len(bufs) /\ bufs \in Seq(BufSet) /\ Store(exitData, chars)
      BY <2>2, <2>3, <1>a
    <3>2. QED
      BY <3>1, StoreContent
  <2>6. DOMAIN c = 0..(bufs[exitData].cap - 1) /\ bufs[exitData].cap \in Nat
    <3>1. DOMAIN c = 0..(bufs[exitData].cap - 1)
      BY <2>2 DEF BufShape
    <3>2. bufs[exitData] \in BufSet
      BY <2>2, <1>a
    <3>3. QED
      BY <3>1, <3>2 DEF BufSet
  <2>7. BufShape'
    BY <2>4, <2>5, <2>6, <2>1 DEF BufShape
  <2>8. \A k \in 0..(n - 1) : c[k] = <<arg[T].id, k>>
    BY <2>1, <2>2 DEF Written, NULL
  <2>9. Written(T)'
    <3>1. \A k \in 0..(n - 1) : bufs'[exitData].content[k] = <<arg[T].id, k>>
      <4> SUFFICES ASSUME NEW k \in 0..(n - 1)
                   PROVE  bufs'[exitData].content[k] = <<arg[T].id, k>>
        OBVIOUS
      <4>1. k \in DOMAIN c /\ k \notin DOMAIN chars
        BY <2>6, <2>2, <2>c, <1>a
      <4>2. QED
        BY <4>1, <2>4, <2>8
    <3>2. bufs'[exitData].content[n] = NulChar
      <4>1. n \in DOMAIN c /\ n \in DOMAIN chars
        BY <2>6, <2>2, <2>c, <1>a
      <4>2. QED
        BY <4>1, <2>4, <2>c
    <3>3. QED
      BY <3>1, <3>2, <2>1, <2>2, <2>5 DEF Written
  <2>10. QED
    BY <1>0, <2>1, <2>2, <2>5, <2>7, <2>9 DEF CallIssued
<1>5. CASE UNCHANGED edVars
  BY <1>0, <1>5 DEF edVars, BufShape, CallIssued, Written
<1>6. QED
  BY <1>1, <1>2, <1>3, <1>4, <1>5 DEF Next

(* Once the call has returned, the first NUL of the buffer is the one    *)
(* the terminator wrote, so the string read back is the one passed.       *)
LEMMA SInvString ==
  ASSUME NEW T, SInv(T), tpc[T] = "idle", exitData # NULL
  PROVE  StringIn(exitData) = Passed(arg[T].id)
<1> DEFINE c    == bufs[exitData].content
           n    == arg[T].len
           id   == arg[T].id
           ends == {k \in DOMAIN c : c[k] = NulChar}
           e    == CHOOSE k \in ends : \A m \in ends : k <= m
<1>1. exitData \in 1..Len(bufs) /\ bufs \in Seq(BufSet)
  BY DEF SInv, NULL, EInv, EdTypeOK
<1>2. DOMAIN c = 0..(bufs[exitData].cap - 1) /\ bufs[exitData].cap \in Nat
  <2>1. DOMAIN c = 0..(bufs[exitData].cap - 1)
    BY <1>1 DEF SInv, BufShape
  <2>2. bufs[exitData] \in BufSet
    BY <1>1
  <2>3. QED
    BY <2>1, <2>2 DEF BufSet
<1>3. id \in 1..Len(issued) /\ issued[id] = n /\ n \in Nat
  <2>1. issued[id] = arg[T].enc /\ arg[T].enc = n
    BY DEF SInv, CallIssued
  <2>2. QED
    BY <2>1 DEF SInv, CallIssued, EInv, EdTypeOK
<1>4. /\ \A k \in 0..(n - 1) : c[k] = <<id, k>>
      /\ c[n] = NulChar
      /\ bufs[exitData].cap >= n + 1
  BY DEF SInv, Written
<1>5. n \in ends
  BY <1>2, <1>3, <1>4
<1>6. \A m \in ends : n <= m
  <2> SUFFICES ASSUME NEW m \in ends, ~(n <= m) PROVE FALSE
    OBVIOUS
  <2>1. m \in 0..(n - 1)
    BY <1>2, <1>3
  <2>2. <<id, m>> = <<0, 0>>
    BY <2>1, <1>4 DEF NulChar
  <2>3. QED
    BY <2>2, <1>3
<1>7. e = n
  <2>1. e \in ends /\ \A m \in ends : e <= m
    BY <1>5, <1>6
  <2>2. ends \subseteq Int
    BY <1>2
  <2> HIDE DEF e, ends
  <2>3. QED
    BY <2>1, <2>2, <1>5, <1>6, <1>3
<1>8. StringIn(exitData) = [k \in 0..(n - 1) |-> c[k]]
  BY <1>5, <1>7 DEF StringIn
<1>9. QED
  BY <1>8, <1>4, <1>3 DEF Passed

(* In a UNICODE build, with one Java thread calling set_exit_data,       *)
(* whenever no call of setExitData is in progress exitData is NULL or     *)
(* holds exactly the string the last call passed: GetStringChars gives    *)
(* GetStringLength characters, the malloc, the _tcsncpy and the           *)
(* terminator leave the first NUL of the buffer right after them, and     *)
(* each call replaces exitData with its buffer.  (In an ANSI build the    *)
(* _tcsncpy truncates a getBytes() string longer than GetStringLength.)   *)
THEOREM SequentialExitDataString ==
  ASSUME NEW T, Threads = {T}, Unicode PROVE Spec => []ExitDataIsLastString
<1>1. Init => SInv(T)
  BY InitSInv
<1>2. SInv(T) /\ [Next]_edVars => SInv(T)'
  BY SInvStep
<1>3. SInv(T) => ExitDataIsLastString
  <2> SUFFICES ASSUME SInv(T), \A t \in Threads : tpc[t] = "idle", exitData # NULL
               PROVE  StringIn(exitData) = Passed(Len(issued))
    BY DEF ExitDataIsLastString
  <2>1. tpc[T] = "idle"
    OBVIOUS
  <2>2. arg[T].id = Len(issued)
    BY DEF SInv, CallIssued
  <2>3. StringIn(exitData) = Passed(arg[T].id)
    BY <2>1, SInvString
  <2>4. QED
    BY <2>2, <2>3
<1>4. QED
  BY <1>1, <1>2, <1>3, PTL DEF Spec

==============================================================================
