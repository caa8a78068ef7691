------------------------------- MODULE DataBlock -------------------------------
(***************************************************************************)
(* A data block (ui_system_interface_utils.c): the text of the parameters  *)
(* of a status or event, "pt1=int&pv1=7&pt2=str&pv2=...", in a buffer that *)
(* doubles when it is full.  Of the text only its length is modelled, as   *)
(* computed before it is written and as sprintf writes it; of a number its *)
(* digits, of a string how many characters url_encode keeps and replaces.  *)
(***************************************************************************)
EXTENDS Integers

CONSTANTS
  Numbers,  \* the lengths of numbers in decimal, with their sign
  Strings,  \* [plain, special]: how many characters are alphanumeric, and are not
  MaxFields \* bound: fields added to a block

VARIABLES
  num_fields,
  cur_buffer_capacity,
  cur_buffer_size,  \* with the terminating zero
  text,             \* the characters in the buffer, without the zero
  failed            \* an ASSERT has failed

vars == <<num_fields, cur_buffer_capacity, cur_buffer_size, text, failed>>

\* ui_sys_create_data_block
Init ==
  /\ num_fields = 0
  /\ cur_buffer_capacity = 32
  /\ cur_buffer_size = 1
  /\ text = 0
  /\ failed = FALSE

\* The characters of a number in decimal.
Digits(n) == IF n < 10 THEN 1 ELSE IF n < 100 THEN 2 ELSE 3

\* Mutant: field 10 counted with one digit.
BytesNeededShort(index, length) ==
  (IF index # 1 THEN 1 ELSE 0) + 7 + 3 + length + 2 * (IF index <= 10 THEN 1 ELSE 2)

\* What ui_sys_data_block_add_field reserves for "[&]pt#=<type>&pv#=<value>"; the
\* names of the types have three characters.
BytesNeeded(index, length) ==
  (IF index # 1 THEN 1 ELSE 0) + 7 + 3 + length + 2 * (IF index < 10 THEN 1 ELSE 2)

\* What sprintf writes: "%spt%d=%s&pv%d=%s".
BytesUsed(index, length) ==
  LET amp == IF index > 1 THEN 1 ELSE 0
      pt == 2 + Digits(index) + 1 + 3
      pv == 1 + 2 + Digits(index) + 1 + length
  IN  amp + pt + pv

\* What a buffer of 32 bytes can be doubled to before an int overflows.
Capacities == {32, 64, 128, 256, 512, 1024, 2048, 4096, 8192, 16384, 32768, 65536, 131072,
  262144, 524288, 1048576, 2097152, 4194304, 8388608, 16777216, 33554432, 67108864,
  134217728, 268435456, 536870912, 1073741824}

\* The first of capacity, 2 * capacity, ... with room for size bytes.
Doubled(capacity, size) ==
  IF size <= capacity THEN capacity ELSE CHOOSE c \in Capacities : size <= c /\ c < 2 * size

\* Mutant: the terminating zero is counted with every field.
WriteZeroToo(index, length) ==
  LET used == BytesUsed(index, length)
  IN  /\ text' = text + used
      /\ cur_buffer_size' = cur_buffer_size + used + 1
      /\ num_fields' = num_fields + 1
      /\ failed' = (BytesNeeded(index, length) # used)

\* Room was made: the field is written and counted.
Write(index, length) ==
  LET used == BytesUsed(index, length)
  IN  /\ text' = text + used
      /\ cur_buffer_size' = cur_buffer_size + used
      /\ num_fields' = num_fields + 1
      /\ failed' = (BytesNeeded(index, length) # used \/ cur_buffer_size' > cur_buffer_capacity')

\* ui_sys_data_block_add_field of a value; a larger buffer may not be had.
AddField(length) ==
  LET index == num_fields + 1
      size == cur_buffer_size + BytesNeeded(index, length)
  IN  /\ ~failed
      /\ index <= MaxFields
      /\ IF index >= 100
           THEN failed' = TRUE /\ UNCHANGED <<num_fields, cur_buffer_capacity, cur_buffer_size, text>>
           ELSE /\ cur_buffer_capacity' \in {Doubled(cur_buffer_capacity, size), cur_buffer_capacity}
                /\ IF size <= cur_buffer_capacity' THEN Write(index, length)
                   ELSE UNCHANGED <<num_fields, cur_buffer_size, text, failed>>

\* ui_sys_data_block_add_int
AddInt(length) == AddField(length)

\* Bound: 99 fields of this length need no larger capacity.  The strings are names of
\* interfaces and links, WPS pins and words typed at the console.
LongestText == 10000000

\* url_encode allocates the length and two more for each special character,
\* which it writes as "%" and two digits.  Of a negative char "%2X" writes eight, but the
\* next character is written over all but two of them and the zero at the end cuts off
\* those of the last one (1257-1265): the length is the same.  Where those few digits go
\* in the meantime, beyond the room allocated, is left out.
EncodedLength(s) == s.plain + s.special + 2 * s.special

\* ui_sys_data_block_add_string; without memory to encode it nothing is added.
AddString(s) == AddField(EncodedLength(s))

Next == (\E length \in Numbers : AddInt(length)) \/ (\E s \in Strings : AddString(s))
Spec == Init /\ [][Next]_vars
-----------------------------------------------------------------------------
TypeOK ==
  /\ num_fields \in 0..99 /\ text \in Nat /\ cur_buffer_size \in Nat /\ failed \in BOOLEAN
  /\ cur_buffer_capacity \in Capacities

\* The text and its zero fit the buffer, and the size kept with the block, which
\* the posting of a message allocates by, is the text's (1350-1376, 1391).
TextFits ==
  /\ text + 1 = cur_buffer_size
  /\ cur_buffer_size <= cur_buffer_capacity

\* No ASSERT fails in a block of up to 99 fields: each field takes exactly the
\* room computed for it (1389, 1392).
BytesAgree == failed => num_fields = 99
=============================================================================
