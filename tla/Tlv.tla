--------------------------------- MODULE Tlv ---------------------------------
(***************************************************************************)
(* How the extensions of a vault, and the queue number of a request, are   *)
(* laid out behind the account's fixed part: entries of a type, a length   *)
(* and as many bytes, one after the other, found by walking from the       *)
(* start.  An area is a sequence of cells; the type and the length of an   *)
(* entry take one cell each (two bytes in the program).                    *)
(*                                                                         *)
(* The area has no other index, so everything rests on the lengths: a      *)
(* value is never to be read as a header, an entry never to be written     *)
(* over another, and no byte of an old value to survive a shorter new one. *)
(***************************************************************************)
EXTENDS Integers, Sequences

CONSTANTS
  DataLen,          \* ExtensionType::data_len: DataLen[t] cells of type t
  Cells,            \* what a cell of a value holds
  QueueOf           \* QueueOf[t]: the vault extension behind request extension t

ASSUME TlvAssumption ==
  /\ DOMAIN DataLen \subseteq Nat \ {0} /\ \A t \in DOMAIN DataLen : DataLen[t] \in Nat
  /\ Cells \subseteq Nat /\ 0 \in Cells
  /\ DOMAIN QueueOf = {1, 2}
  /\ \A t \in DOMAIN QueueOf : QueueOf[t] \in DOMAIN DataLen

TLV_HEADER_SIZE == 2
NotFound        == -1
RequestDataLen  == 1            \* the number of a queued request

Zeros(n) == [i \in 1 .. n |-> 0]
Padded(value, n) == [i \in 1 .. n |-> IF i <= Len(value) THEN value[i] ELSE 0]

\* Where the entry of a type starts (get_extension_bytes_raw walks to it).  A
\* length that leads out of the area ends the walk.
Find(area, type) ==
  LET from[offset \in 0 .. Len(area)] ==
        IF offset + TLV_HEADER_SIZE > Len(area) THEN NotFound
        ELSE LET value_end == offset + TLV_HEADER_SIZE + area[offset + 2]
             IN  IF value_end > Len(area) THEN NotFound
                 ELSE IF area[offset + 1] = type THEN offset ELSE from[value_end]
  IN  from[0]

HasExtension(area, type) == Find(area, type) # NotFound

GetExtensionBytes(area, type) ==
  LET offset == Find(area, type)
  IN  SubSeq(area, offset + TLV_HEADER_SIZE + 1,
                   offset + TLV_HEADER_SIZE + area[offset + 2])

\* The end of the last entry: where the next one is written.  The mutant walks
\* by the length of the value and forgets the header.
UsedLenWithoutHeaders(area) ==
  LET from[offset \in 0 .. Len(area)] ==
        IF offset + TLV_HEADER_SIZE > Len(area) THEN offset
        ELSE LET next == offset + area[offset + 2]
             IN  IF area[offset + 1] = 0 \/ next > Len(area) \/ next = offset
                   THEN offset ELSE from[next]
  IN  from[0]

TlvUsedLen(area) ==
  LET from[offset \in 0 .. Len(area)] ==
        IF offset + TLV_HEADER_SIZE > Len(area) THEN offset
        ELSE LET next == offset + TLV_HEADER_SIZE + area[offset + 2]
             IN  IF area[offset + 1] = 0 \/ next > Len(area) THEN offset ELSE from[next]
  IN  from[0]

\* write_extension_raw: the header, the value, and zeros up to the length.
CanWrite(area, offset, data_len, value) ==
  Len(value) <= data_len /\ offset + TLV_HEADER_SIZE + data_len <= Len(area)

WriteExtension(area, offset, type, data_len, value) ==
  [i \in 1 .. Len(area) |->
     CASE i = offset + 1 -> type
       [] i = offset + 2 -> data_len
       [] i \in offset + TLV_HEADER_SIZE + 1 .. offset + TLV_HEADER_SIZE + data_len
            -> Padded(value, data_len)[i - offset - TLV_HEADER_SIZE]
       [] OTHER -> area[i]]

\* update_extension: the value, and zeros up to the end of the entry.
UpdateExtension(area, type, value) ==
  LET offset == Find(area, type)
      start  == offset + TLV_HEADER_SIZE
  IN  [i \in 1 .. Len(area) |->
         IF i \in start + 1 .. start + area[offset + 2]
           THEN Padded(value, area[offset + 2])[i - start] ELSE area[i]]

\* compute_request_extension_space: room for every queue of the vault, whichever
\* direction the request is; and the mutant that only knows of subscriptions.
SpaceForSubscriptions(area) ==
  IF HasExtension(area, QueueOf[1]) THEN TLV_HEADER_SIZE + RequestDataLen ELSE 0

RequestExtensionSpace(area) ==
  (IF HasExtension(area, QueueOf[1]) THEN TLV_HEADER_SIZE + RequestDataLen ELSE 0)
  + (IF HasExtension(area, QueueOf[2]) THEN TLV_HEADER_SIZE + RequestDataLen ELSE 0)

-----------------------------------------------------------------------------
VARIABLES
  vault_area,      \* behind the Vault account
  initialized,     \* Vault.initialized
  request_area,    \* behind the Request account
  tag              \* the extension and number the request was given, or <<>>

tlvVars == <<vault_area, initialized, request_area, tag>>

TlvInit ==
  /\ vault_area = << >> /\ initialized = FALSE
  /\ request_area = << >> /\ tag = << >>

\* What is written: serialized values, of the type's length or shorter.
Written(t) == UNION {[1 .. n -> Cells] : n \in 0 .. DataLen[t]}

\* initialize_<extension>: the account grows by the entry (Anchor's realloc, with
\* zeros), and init_vault_extension writes it after the last one.
InitVaultExtension(t, value) ==
  LET grown  == vault_area \o Zeros(TLV_HEADER_SIZE + DataLen[t])
      offset == TlvUsedLen(grown)
  IN  /\ ~initialized
      /\ ~HasExtension(grown, t)
      /\ CanWrite(grown, offset, DataLen[t], value)
      /\ vault_area' = WriteExtension(grown, offset, t, DataLen[t], value)
      /\ UNCHANGED <<initialized, request_area, tag>>

InitializeVault ==
  /\ ~initialized
  /\ initialized' = TRUE
  /\ UNCHANGED <<vault_area, request_area, tag>>

\* update_vault_extension, by update_<extension>, a queued update or a queue
\* that moves.
UpdateVaultExtension(t, value) ==
  /\ HasExtension(vault_area, t)
  /\ Len(value) <= DataLen[t]
  /\ vault_area' = UpdateExtension(vault_area, t, value)
  /\ UNCHANGED <<initialized, request_area, tag>>

\* A request account is created with its space; init_request_extension gives it
\* its number if the vault has a queue of its direction.
CreateRequest(t, id) ==
  LET area == Zeros(RequestExtensionSpace(vault_area))
      offset == TlvUsedLen(area)
  IN  /\ initialized
      /\ tag = << >>
      /\ HasExtension(vault_area, QueueOf[t])
      /\ CanWrite(area, offset, RequestDataLen, <<id>>)
      /\ request_area' = WriteExtension(area, offset, t, RequestDataLen, <<id>>)
      /\ tag' = <<t, id>>
      /\ UNCHANGED <<vault_area, initialized>>

CloseRequest ==
  /\ tag # << >>
  /\ request_area' = << >> /\ tag' = << >>
  /\ UNCHANGED <<vault_area, initialized>>

TlvNext ==
  \/ \E t \in DOMAIN DataLen : \E v \in Written(t) :
       InitVaultExtension(t, v) \/ UpdateVaultExtension(t, v)
  \/ InitializeVault
  \/ \E t \in DOMAIN QueueOf, id \in Cells : CreateRequest(t, id)
  \/ CloseRequest

TlvSpec == TlvInit /\ [][TlvNext]_tlvVars

-----------------------------------------------------------------------------
\* The map an area stands for.
Decoded ==
  [t \in {u \in DOMAIN DataLen : HasExtension(vault_area, u)} |->
     GetExtensionBytes(vault_area, t)]

Extensions == INSTANCE ExtensionMap
  WITH map <- Decoded, Values <- [t \in DOMAIN DataLen |-> [1 .. DataLen[t] -> Cells]]

\* The walked area is a map: every instruction adds one extension or replaces the
\* value of one, all others read as before, whatever bytes the values hold
\* (init_vault_extension, update_vault_extension); and what was updated reads back
\* with zeros behind it, nothing of a longer earlier value is left
\* (update_extension).
AreaIsAMap ==
  /\ Extensions!MapSpec
  /\ [][\A t \in DOMAIN DataLen : \A v \in Written(t) :
          UpdateVaultExtension(t, v) => Decoded'[t] = Padded(v, DataLen[t])]_tlvVars

\* A request of a queued vault always has room for its number, and reads back
\* that number under its own direction and none under the other, however much
\* unused space follows.
RequestReadsItsNumber ==
  /\ \A t \in DOMAIN QueueOf :
       HasExtension(vault_area, QueueOf[t]) =>
         CanWrite(Zeros(RequestExtensionSpace(vault_area)), 0, RequestDataLen, <<0>>)
  /\ tag # << >> =>
       \A t \in DOMAIN QueueOf :
         IF t = tag[1] THEN GetExtensionBytes(request_area, t) = <<tag[2]>>
                       ELSE ~HasExtension(request_area, t)
==============================================================================
