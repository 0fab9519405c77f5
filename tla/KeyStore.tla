------------------------------ MODULE KeyStore ------------------------------
(***************************************************************************)
(* What the configuration store promises its users, src/arm/lib/config.h:  *)
(* a value for each key.  While a value is written its key holds nothing   *)
(* one may count on, and every other key what it held before.  A writing   *)
(* that is complete has replaced the value.  One cut short leaves the old  *)
(* value, the new one, that of an earlier writing cut short, or a damage   *)
(* that is noticed.  There are no addresses, records or pages here.        *)
(***************************************************************************)
CONSTANTS
  Key, Data,
  NoData,           \* no value
  NoCall,           \* the store is at rest
  EraseCall,        \* it is being erased
  WriteCall(_, _)   \* a value is being written to a key

VARIABLES
  content,  \* what reading each key returns, with the length of its record
  call,     \* the call under way
  stored,   \* the value last written completely to each key
  tried     \* those whose writing was cut short since

storeVars == <<content, call, stored, tried>>

Holds(d) == [rv |-> "OK", data |-> d]
Missing  == [rv |-> "ENOENT", data |-> NoData]
Damaged  == [rv |-> "EIO", data |-> NoData]
Unknown  == [rv |-> "busy", data |-> NoData]

Nothing   == [k \in Key |-> Missing]
Uncertain == [k \in Key |-> Unknown]

\* A new store is erased first.
StoreInit ==
  /\ content = Uncertain
  /\ call = EraseCall
  /\ stored = [k \in Key |-> NoData]
  /\ tried = [k \in Key |-> {}]

BeginWrite(k, d) ==
  /\ call = NoCall
  /\ call' = WriteCall(k, d)
  /\ content' = [content EXCEPT ![k] = Unknown]
  /\ UNCHANGED <<stored, tried>>

EndWrite(k, d) ==
  /\ call = WriteCall(k, d)
  /\ call' = NoCall
  /\ content' = [content EXCEPT ![k] = Holds(d)]
  /\ stored' = [stored EXCEPT ![k] = d]
  /\ tried' = [tried EXCEPT ![k] = {}]

\* What may be left of key k.  It is missing only if it was never written completely.
Left(k, values) ==
  {Damaged} \cup {Holds(v) : v \in values}
    \cup IF stored[k] = NoData THEN {Missing} ELSE {Holds(stored[k])}

CutWrite(k, d) ==
  /\ call = WriteCall(k, d)
  /\ call' = NoCall
  /\ tried' = [tried EXCEPT ![k] = @ \cup {d}]
  /\ \E left \in Left(k, tried'[k]) : content' = [content EXCEPT ![k] = left]
  /\ UNCHANGED stored

BeginErase ==
  /\ call = NoCall
  /\ call' = EraseCall
  /\ content' = Uncertain
  /\ UNCHANGED <<stored, tried>>

EndErase ==
  /\ call = EraseCall
  /\ call' = NoCall
  /\ content' = Nothing
  /\ stored' = [k \in Key |-> NoData]
  /\ tried' = [k \in Key |-> {}]

StoreNext ==
  \/ \E k \in Key, d \in Data : BeginWrite(k, d) \/ EndWrite(k, d) \/ CutWrite(k, d)
  \/ BeginErase
  \/ EndErase

StoreSpec == StoreInit /\ [][StoreNext]_storeVars

=============================================================================
