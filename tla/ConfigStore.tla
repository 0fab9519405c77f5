---------------------------- MODULE ConfigStore -----------------------------
(***************************************************************************)
(* The configuration store, src/arm/lib/config.c, on its EEPROM,           *)
(* src/arm/drv/eeprom/eeprom-at25.c: a chain of records, each a header, an *)
(* id and its data, closed by an erased byte.  A record is written by      *)
(* three calls of eeprom_write(), each of which programs the pages it      *)
(* touches one by one; the power may fail between any two of them.         *)
(*                                                                         *)
(* A cell stands for a field of a header or for a byte of an id or of      *)
(* data: the header is three cells (id_len, data_len, crc), the header of  *)
(* the store one.  A record says how far it is to the next, so a header    *)
(* half written leads the walk along the chain astray.                     *)
(***************************************************************************)
EXTENDS Integers, Sequences

CONSTANTS
  End,          \* addr_end of the store; it starts at 0
  PageSize,     \* cells the chip programs at once
  FillSize,     \* cells config_erase() writes with one call
  Key,          \* the ids in use
  idOf,         \* idOf[k]: the cells of id k
  Data,         \* the values written: sequences of cells
  Crc(_, _),    \* the checksum of a header (its id_len) and data
  FailInErase   \* may the power fail while the store is being erased?

Magic  == 1
Erased == 255   \* ID_LEN_TERMINATOR
Hole   == 0     \* ID_LEN_HOLE
HeaderLen == 3
StoreHeaderLen == 1
Cells  == 0 .. Erased
Addr   == 0 .. End - 1

ASSUME SizeAssumption ==
  /\ End \in Nat /\ End > StoreHeaderLen
  /\ PageSize \in Nat \ {0} /\ FillSize \in Nat \ {0}
ASSUME KeyAssumption ==
  /\ \A k \in Key : idOf[k] \in Seq(1 .. Erased - 1) /\ Len(idOf[k]) \in 1 .. Erased - 1
  /\ \A j, k \in Key : idOf[j] = idOf[k] => j = k
ASSUME DataAssumption ==
  /\ \A d \in Data : d \in Seq(Cells) /\ Len(d) \in 1 .. Erased - 1
  /\ \A k \in Key, d \in Data : Crc(Len(idOf[k]), d) \in Cells
ASSUME FailAssumption == FailInErase \in BOOLEAN

VARIABLES
  mem,      \* the cells of the EEPROM
  pending,  \* the pages still to be programmed by the call under way
  call,     \* what that call is
  stored,   \* history: stored[k], the last value written completely
  tried,    \* history: tried[k], values since then whose writing was cut short
  torn      \* history: the power failed between the pages of a new header

vars == <<mem, pending, call, stored, tried, torn>>

NoData  == <<>>
NoCall  == [op |-> "none"]
EraseCall == [op |-> "erase"]
WriteCall(k, d) == [op |-> "write", key |-> k, data |-> d]

\* The cells of a page to be programmed at an address.  cut: does a power failure just
\* before it leave half a header in a new record?
Page == [addr : Addr, cells : Seq(Cells), cut : BOOLEAN]

TypeOK ==
  /\ mem \in [Addr -> Cells]
  /\ pending \in Seq(Page)
  /\ call \in {NoCall, EraseCall} \cup {WriteCall(k, d) : k \in Key, d \in Data}
  /\ call = NoCall <=> pending = <<>>
  /\ stored \in [Key -> Data \cup {NoData}]
  /\ tried \in [Key -> SUBSET Data]
  /\ torn \in BOOLEAN

-----------------------------------------------------------------------------
(* Reading.  What the chip returns beyond its end is not known here: it is *)
(* taken for erased.                                                       *)

Cell(m, a) == IF a \in Addr THEN m[a] ELSE Erased

\* Len cells from address a on.
Read(m, a, len) == [i \in 1 .. len |-> Cell(m, a + i - 1)]

\* A faulty variant of HasId: the lengths are compared, the ids are not.
HasIdByLength(m, a, k) == Cell(m, a) = Len(idOf[k])

\* Does the record at address a have id k?
HasId(m, a, k) ==
  /\ Cell(m, a) = Len(idOf[k])
  /\ Read(m, a + HeaderLen, Len(idOf[k])) = idOf[k]

\* config_find(): the record with id k, or else where the chain ends.
Find(m, k) ==
  LET walk[a \in Nat] ==
        CASE Cell(m, a) \in {Hole, Erased} -> [found |-> FALSE, addr |-> a]
          [] HasId(m, a, k)                -> [found |-> TRUE, addr |-> a]
          [] OTHER -> walk[a + HeaderLen + Cell(m, a) + Cell(m, a + 1)]
  IN  walk[StoreHeaderLen]

\* A faulty variant of ConfigRead: the checksum is not compared.
ConfigReadUnchecked(m, k, len) ==
  LET f == Find(m, k)
  IN  IF ~f.found THEN [rv |-> "ENOENT", data |-> NoData]
      ELSE IF Cell(m, f.addr + 1) # len THEN [rv |-> "EINVAL", data |-> NoData]
      ELSE [rv |-> "OK", data |-> Read(m, f.addr + HeaderLen + Cell(m, f.addr), len)]

\* config_read() of len cells: what it returns and, with RV_OK, the data.
ConfigRead(m, k, len) ==
  LET f    == Find(m, k)
      data == Read(m, f.addr + HeaderLen + Cell(m, f.addr), len)
  IN  IF ~f.found THEN [rv |-> "ENOENT", data |-> NoData]
      ELSE IF Cell(m, f.addr + 1) # len THEN [rv |-> "EINVAL", data |-> NoData]
      ELSE IF Cell(m, f.addr + 2) # Crc(Cell(m, f.addr), data)
        THEN [rv |-> "EIO", data |-> NoData]
      ELSE [rv |-> "OK", data |-> data]

-----------------------------------------------------------------------------
(* Writing.                                                                *)

\* eeprom_write() of the cells c at address a, one page at a time.
Pages(a, c, header) ==
  LET first == a \div PageSize
      last  == (a + Len(c) - 1) \div PageSize
      from(p) == IF p * PageSize > a THEN p * PageSize ELSE a
      to(p) == IF (p + 1) * PageSize < a + Len(c) THEN (p + 1) * PageSize ELSE a + Len(c)
  IN  [i \in 1 .. last - first + 1 |->
         LET p == first + i - 1
         IN  [addr |-> from(p), cells |-> SubSeq(c, from(p) - a + 1, to(p) - a),
              cut |-> header /\ i > 1]]

Programmed(m, page) ==
  [a \in Addr |-> IF a - page.addr \in 0 .. Len(page.cells) - 1
                  THEN page.cells[a - page.addr + 1] ELSE m[a]]

\* Faulty variants of Fits, slips that the properties of this module have to notice:
\* no room check, or one that leaves no erased cell behind the record.
FitsAlways(a, k, d)  == TRUE
FitsExactly(a, k, d) == a + HeaderLen + Len(idOf[k]) + Len(d) <= End

\* Is there room for the record at address a?  One erased cell stays behind it.
Fits(a, k, d) == a + HeaderLen + Len(idOf[k]) + Len(d) < End

\* The three writes of config_write(): header, id, data.
Record(a, k, d) ==
  Pages(a, <<Len(idOf[k]), Len(d), Crc(Len(idOf[k]), d)>>, Cell(mem, a) = Erased)
    \o Pages(a + HeaderLen, idOf[k], FALSE)
    \o Pages(a + HeaderLen + Len(idOf[k]), d, FALSE)

\* config_write() up to its first write.  It returns RV_EINVAL for another length
\* than the record has, and RV_ENOSPC, without a step here.
ConfigWrite(k, d) ==
  LET f == Find(mem, k)
  IN  /\ pending = <<>>
      /\ f.found => Cell(mem, f.addr + 1) = Len(d)
      /\ Fits(f.addr, k, d)
      /\ pending' = Record(f.addr, k, d)
      /\ call' = WriteCall(k, d)
      /\ UNCHANGED <<mem, stored, tried, torn>>

\* The writes of config_erase(): the header of the store, then erased cells.
Erasure ==
  LET count == (End - StoreHeaderLen + FillSize - 1) \div FillSize
      fill(i) ==
        LET a   == StoreHeaderLen + (i - 1) * FillSize
            len == IF End - a < FillSize THEN End - a ELSE FillSize
        IN  Pages(a, [j \in 1 .. len |-> Erased], FALSE)
      upto[i \in 0 .. count] == IF i = 0 THEN <<>> ELSE upto[i - 1] \o fill(i)
  IN  Pages(0, <<Magic>>, FALSE) \o upto[count]

ConfigErase ==
  /\ pending = <<>>
  /\ pending' = Erasure
  /\ call' = EraseCall
  /\ UNCHANGED <<mem, stored, tried, torn>>

\* The chip programs a page; the last one ends the call.
ProgramPage ==
  /\ pending # <<>>
  /\ mem' = Programmed(mem, Head(pending))
  /\ pending' = Tail(pending)
  /\ IF Len(pending) > 1 THEN UNCHANGED <<call, stored, tried, torn>>
     ELSE /\ call' = NoCall
          /\ IF call.op = "write"
               THEN /\ stored' = [stored EXCEPT ![call.key] = call.data]
                    /\ tried' = [tried EXCEPT ![call.key] = {}]
                    /\ torn' = torn
               ELSE /\ stored' = [k \in Key |-> NoData]
                    /\ tried' = [k \in Key |-> {}]
                    /\ torn' = FALSE

\* The power fails in the middle of a call, and config_init() finds a header that is
\* valid, or erases the store.
PowerFail ==
  /\ pending # <<>>
  /\ call = EraseCall => FailInErase
  /\ LET init == mem[0] # Magic
     IN  /\ pending' = IF init THEN Erasure ELSE <<>>
         /\ call' = IF init THEN EraseCall ELSE NoCall
  /\ tried' = IF call.op = "write"
              THEN [tried EXCEPT ![call.key] = @ \cup {call.data}] ELSE tried
  /\ torn' = (torn \/ Head(pending).cut)
  /\ UNCHANGED <<mem, stored>>

\* A chip never written: config_init() erases it.
Init ==
  /\ mem = [a \in Addr |-> Erased]
  /\ pending = Erasure
  /\ call = EraseCall
  /\ stored = [k \in Key |-> NoData]
  /\ tried = [k \in Key |-> {}]
  /\ torn = FALSE

Next ==
  \/ \E k \in Key, d \in Data : ConfigWrite(k, d)
  \/ ConfigErase
  \/ ProgramPage
  \/ PowerFail

Spec == Init /\ [][Next]_vars

-----------------------------------------------------------------------------
(* Properties.                                                             *)

\* Whatever was cut short since: a key whose last writing was complete is read back
\* as written, one that was ever written completely is never missing again, and one
\* that was never begun is missing, behind whatever records the failures left.
ReadsWhatWasWritten ==
  pending = <<>> =>
    \A k \in Key, d \in Data :
      LET r == ConfigRead(mem, k, Len(d))
      IN  /\ stored[k] = d /\ tried[k] = {} => r = [rv |-> "OK", data |-> d]
          /\ stored[k] # NoData => r.rv # "ENOENT"
          /\ stored[k] = NoData /\ tried[k] = {} => r.rv = "ENOENT"

\* The sequences of n cells of which each is that of some value, or erased: what is
\* left of several writings of one record, each cut short somewhere.
Mixtures(n) ==
  {x \in [1 .. n -> Cells] :
     \A i \in 1 .. n : x[i] = Erased \/ \E v \in Data : Len(v) = n /\ x[i] = v[i]}

\* The checksum of a value is that of no other mixture.
CrcTellsApart ==
  \A k \in Key, d \in Data : \A x \in Mixtures(Len(d)) :
    Crc(Len(idOf[k]), x) = Crc(Len(idOf[k]), d) => x = d

\* A key whose rewriting failed reads as its old value, as one of the new ones, or as
\* an error, never as a mixture, where the checksum tells them apart.
MixturesRejected ==
  pending = <<>> =>
    \A k \in Key, d \in Data :
      LET r == ConfigRead(mem, k, Len(d))
      IN  r.rv = "OK" => r.data \in tried[k] \cup {stored[k]}

\* While a key is written, from its first page to its last and whether or not the
\* power fails in between, every other key reads as before.
OtherKeysUntouched ==
  [][\A k \in Key, d \in Data :
       (call.op # "erase" /\ call'.op # "erase" /\ (call.op = "write" => call.key # k))
         => ConfigRead(mem', k, Len(d)) = ConfigRead(mem, k, Len(d))]_vars

\* What reading key k with the length of its record returns.
Content(m, k) == ConfigRead(m, k, Cell(m, Find(m, k).addr + 1))

\* Is key k neither written nor erased by the call under way?
Steady(k) == call.op # "erase" /\ (call.op = "write" => call.key # k)

Contents ==
  [k \in Key |-> IF Steady(k) THEN Content(mem, k) ELSE [rv |-> "busy", data |-> NoData]]

Store == INSTANCE KeyStore WITH content <- Contents

\* The chain of records, with its pages and what failures leave of them, is a store of
\* values by key.
ImplementsKeyStore == Store!StoreSpec

\* The chain of records ends inside the store, unless the power failed within a
\* header that crosses a page: then its data_len is still erased.
ChainEndsInside ==
  pending = <<>> /\ ~torn => \A k \in Key : Find(mem, k).addr < End

\* "config_find() will set addr to the first available block", config.c:252-253: a key
\* that is not found may be written where the chain ends.
FirstAvailableBlock ==
  pending = <<>> => \A k \in Key : ~Find(mem, k).found => Find(mem, k).addr \in Addr

=============================================================================
