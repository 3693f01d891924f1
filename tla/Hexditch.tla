------------------------------ MODULE Hexditch ------------------------------
(***************************************************************************)
(* hexdump-II/hexditch.c: the loop of hexditch, one step for a row.  The   *)
(* colours are left out.                                                   *)
(***************************************************************************)
EXTENDS Integers, Sequences

CONSTANTS
  Dumped,       (* the files that occur: sequences of bytes                *)
  Width         (* the size of buffer                                      *)

VARIABLES
  unread,       (* what fread has not given yet                            *)
  rest,         (* history: the file                                       *)
  buffer, offset,
  rows,         (* what was printed: records [offset, hex, ascii], where   *)
                (* hex holds the digits of each byte                       *)
  dump_status   (* "running", "ended"; "broken" when fread gave nothing    *)
                (* for an error, which the loop takes for the end of the   *)
                (* file                                                    *)

dumpVars == <<unread, rest, buffer, offset, rows, dump_status>>

(* char is signed: what %02x is given is the int it becomes, and it shows  *)
(* that as an unsigned word of 32 bits, without leading zeros but with two *)
(* digits at least.                                                        *)
Int32(byte) == IF byte < 128 THEN byte ELSE byte - 256

Hex(byte) ==
  LET n == Int32(byte)
      digits == IF n < 0 THEN 8 ELSE 2
  IN  [k \in 1 .. digits |-> (n \div 16^(digits - k)) % 16]

Dot == 46
Printable == 32 .. 126
Ascii(byte) == IF byte \in Printable THEN byte ELSE Dot

Init ==
  /\ rest \in Dumped /\ unread = rest
  /\ buffer = [k \in 1 .. Width |-> 0]
  /\ offset = 0 /\ rows = <<>>
  /\ dump_status = "running"

(* buffer after an fread that gave n bytes.                                *)
Given(n) == [k \in 1 .. Width |-> IF k <= n THEN unread[k] ELSE buffer[k]]

Row(n, shown) ==
  /\ dump_status = "running" /\ n > 0
  /\ buffer' = Given(n)
  /\ rows' = Append(rows,
       [offset |-> offset,
        hex |-> [k \in 1 .. shown |-> Hex(Given(n)[k])],
        ascii |-> [k \in 1 .. shown |-> Ascii(Given(n)[k])]])
  /\ offset' = offset + n
  /\ unread' = SubSeq(unread, n + 1, Len(unread))
  /\ UNCHANGED rest

Smaller(m, n) == IF m < n THEN m ELSE n

(* Faulty variant: the whole buffer is shown, whatever fread gave.         *)
ShowRowWhole(n) == Row(n, Width)
ShowRow(n) == Row(n, n)

(* fread gives Width bytes, or what is left, or what came before an error; *)
(* in each case the loop shows a row and reads on.                         *)
Dump ==
  /\ \E n \in 1 .. Smaller(Width, Len(unread)) : ShowRow(n)
  /\ UNCHANGED dump_status

(* fread gave nothing.                                                     *)
Close ==
  /\ dump_status = "running"
  /\ dump_status' \in IF unread = <<>> THEN {"ended", "broken"} ELSE {"broken"}
  /\ UNCHANGED <<unread, rest, buffer, offset, rows>>

Next == Dump \/ Close

-----------------------------------------------------------------------------
(* The bytes in the first r rows.                                          *)
Shown(r) == IF r = 0 THEN 0 ELSE rows[r].offset + Len(rows[r].hex)

(* The two digits of a byte, and the six of the sign that a byte from 128  *)
(* on has before them: it is dumped as eight digits, where README.md:5-9   *)
(* has two for every byte.                                                 *)
Digits(byte) ==
  IF byte < 128
  THEN <<byte \div 16, byte % 16>>
  ELSE <<15, 15, 15, 15, 15, 15, byte \div 16, byte % 16>>

(* Read row by row, what was printed is the file up to the place the loop  *)
(* has reached, wherever a read error made a row short: each row starts at *)
(* the offset it names, where the one before it ended, it has the digits   *)
(* of every byte (Digits) and, beside them, the character of every one     *)
(* that can be printed and a dot for each of the others; a dump that ended *)
(* at the end of the file has shown all of it.                             *)
DumpShowsFile ==
  /\ Shown(Len(rows)) + Len(unread) = Len(rest)
  /\ \A r \in DOMAIN rows :
       /\ rows[r].offset = Shown(r - 1)
       /\ \A k \in DOMAIN rows[r].hex :
            LET byte == rest[Shown(r - 1) + k]
            IN  /\ rows[r].hex[k] = Digits(byte)
                /\ rows[r].ascii[k] = IF byte \in 32 .. 126 THEN byte ELSE Dot
  /\ dump_status = "ended" => Shown(Len(rows)) = Len(rest)
=============================================================================
