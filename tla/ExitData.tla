------------------------------ MODULE ExitData ------------------------------
(***************************************************************************)
(* set_exit_data -> setExitData(env, NULL, s) of library/eclipseJNI.c, as  *)
(* the Java threads call it: each call allocates a buffer and stores it in *)
(* the global exitData, then copies s and writes the terminator through    *)
(* exitData, read again at each of those statements.  Nothing serialises   *)
(* the calls.                                                              *)
(*                                                                         *)
(* Buffers are counted in characters: malloc((length + 1) *                *)
(* sizeof(_TCHAR* )) gives (length + 1) * PtrSize \div CharSize of them.   *)
(* The string a call passes is its native form, what JNI_GetStringChars   *)
(* returns: the UTF-16 characters in a UNICODE build, the bytes of         *)
(* getBytes() in an ANSI build, which may be more or fewer than the        *)
(* GetStringLength characters.  Its k-th unit in call c is <<c, k>>.  The  *)
(* call that passes an id (setSharedData, not under src/) is left out.     *)
(***************************************************************************)
EXTENDS Integers, Sequences, FiniteSets

CONSTANTS
  Threads,    \* the Java threads calling set_exit_data
  Lengths,    \* GetStringLength values of the strings they pass
  MaxCalls,   \* bound on the calls made in a run
  PtrSize,    \* sizeof(_TCHAR* )
  CharSize,   \* sizeof(_TCHAR)
  Unicode,    \* is UNICODE defined in the build?
  MaxBytesPerChar \* bound on the bytes getBytes() gives one character

ASSUME ExitDataAssumption ==
  /\ Threads # {}
  /\ Lengths \subseteq Nat
  /\ MaxCalls \in Nat
  /\ PtrSize \in Nat \ {0} /\ CharSize \in Nat \ {0}
  /\ CharSize <= PtrSize
  /\ Unicode \in BOOLEAN
  /\ MaxBytesPerChar \in Nat \ {0}

NULL == 0

NulChar == <<0, 0>>

Junk == <<-1, 0>>   \* what malloc leaves in a fresh buffer

VARIABLES
  exitData,   \* the global _TCHAR* exitData: NULL or a buffer number
  bufs,       \* the buffers allocated so far: [cap, content]
  tpc,        \* where each thread is in setExitData
  arg,        \* the call each thread is making: [id, len, enc]
  issued,     \* issued[c]: the length of the native string of call c
  overflow    \* has a write gone past the end of its buffer?

edVars == <<exitData, bufs, tpc, arg, issued, overflow>>

Init ==
  /\ exitData = NULL
  /\ bufs = <<>>
  /\ tpc = [t \in Threads |-> "idle"]
  /\ arg = [t \in Threads |-> [id |-> 0, len |-> 0, enc |-> 0]]
  /\ issued = <<>>
  /\ overflow = FALSE

(* The lengths of the native form of a string of l characters: the same  *)
(* in a UNICODE build; in an ANSI build getBytes() encodes a character in *)
(* 1 to MaxBytesPerChar bytes, and a surrogate pair in at least one.      *)
EncodedLengths(l) ==
  IF Unicode THEN {l} ELSE ((l + 1) \div 2)..(MaxBytesPerChar * l)

(* set_exit_data with a non-null s: GetStringLength, JNI_GetStringChars. *)
Call(t) ==
  /\ tpc[t] = "idle"
  /\ Len(issued) < MaxCalls
  /\ \E l \in Lengths : \E e \in EncodedLengths(l) :
       /\ arg' = [arg EXCEPT ![t] = [id |-> Len(issued) + 1, len |-> l, enc |-> e]]
       /\ issued' = Append(issued, e)
  /\ tpc' = [tpc EXCEPT ![t] = "malloc"]
  /\ UNCHANGED <<exitData, bufs, overflow>>

(* A variant of Malloc that leaves no room for the terminator. *)
MallocNoTerminator(t) ==
  /\ tpc[t] = "malloc"
  /\ LET cap == (arg[t].len * PtrSize) \div CharSize
     IN bufs' = Append(bufs, [cap |-> cap, content |-> [k \in 0..(cap - 1) |-> Junk]])
  /\ exitData' = Len(bufs) + 1
  /\ tpc' = [tpc EXCEPT ![t] = "copy"]
  /\ UNCHANGED <<arg, issued, overflow>>

(* exitData = malloc((length + 1) * sizeof(_TCHAR* )). *)
Malloc(t) ==
  /\ tpc[t] = "malloc"
  /\ LET cap == ((arg[t].len + 1) * PtrSize) \div CharSize
     IN bufs' = Append(bufs, [cap |-> cap, content |-> [k \in 0..(cap - 1) |-> Junk]])
  /\ exitData' = Len(bufs) + 1
  /\ tpc' = [tpc EXCEPT ![t] = "copy"]
  /\ UNCHANGED <<arg, issued, overflow>>

(* Store the characters chars (a function from positions) in buffer b;    *)
(* a position past its end is a heap overflow.                            *)
Store(b, chars) ==
  /\ bufs' = [bufs EXCEPT ![b].content =
                [k \in DOMAIN @ |-> IF k \in DOMAIN chars THEN chars[k] ELSE @[k]]]
  /\ overflow' = (overflow \/ \E k \in DOMAIN chars : k >= bufs[b].cap)

(* _tcsncpy of n characters of the native string of thread t's call: the *)
(* string's units, then NULs once its terminator is reached.              *)
Copied(t, n) ==
  [k \in 0..(n - 1) |-> IF k < arg[t].enc THEN <<arg[t].id, k>> ELSE NulChar]

(* A variant of Copy that copies one character less. *)
CopyShort(t) ==
  /\ tpc[t] = "copy"
  /\ Store(exitData, Copied(t, arg[t].len - 1))
  /\ tpc' = [tpc EXCEPT ![t] = "term"]
  /\ UNCHANGED <<exitData, arg, issued>>

(* _tcsncpy(exitData, data, length): length is GetStringLength's count. *)
Copy(t) ==
  /\ tpc[t] = "copy"
  /\ Store(exitData, Copied(t, arg[t].len))
  /\ tpc' = [tpc EXCEPT ![t] = "term"]
  /\ UNCHANGED <<exitData, arg, issued>>

(* exitData[length] = 0, then ReleaseStringChars. *)
Terminate(t) ==
  /\ tpc[t] = "term"
  /\ Store(exitData, [k \in {arg[t].len} |-> NulChar])
  /\ tpc' = [tpc EXCEPT ![t] = "idle"]
  /\ UNCHANGED <<exitData, arg, issued>>

Next == \E t \in Threads : Call(t) \/ Malloc(t) \/ Copy(t) \/ Terminate(t)

Spec == Init /\ [][Next]_edVars

-----------------------------------------------------------------------------

(* The string exitData holds: its characters up to the terminator. *)
StringIn(b) ==
  LET c == bufs[b].content
      ends == {k \in DOMAIN c : c[k] = NulChar}
      e == CHOOSE k \in ends : \A m \in ends : k <= m
  IN IF ends = {} THEN <<"unterminated">> ELSE [k \in 0..(e - 1) |-> c[k]]

(* The string call c passed. *)
Passed(c) == [k \in 0..(issued[c] - 1) |-> <<c, k>>]

(* No write of setExitData goes past the buffer it allocated. *)
NoOverflow == ~overflow

(* When no call of set_exit_data is in progress, exitData is NULL or holds *)
(* exactly the string the last call passed (spec 3: ExitData is a single  *)
(* string set by the runtime; a later call replaces what an earlier one   *)
(* stored).                                                               *)
ExitDataIsLastString ==
  (\A t \in Threads : tpc[t] = "idle") /\ exitData # NULL =>
    StringIn(exitData) = Passed(Len(issued))

=============================================================================
