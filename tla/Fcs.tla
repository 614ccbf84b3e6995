-------------------------------- MODULE Fcs --------------------------------
(***************************************************************************)
(* The frame check sequence of a serial frame: MctpSerial::calcFcs with    *)
(* its table fcstab, against the definition of the checksum it stands for, *)
(* the reflected CCITT CRC taken one bit at a time.  MctpSerial takes the  *)
(* FCS as ideal; this module says which errors it really shows.            *)
(***************************************************************************)
EXTENDS Integers, Bitwise, Sequences, FiniteSetsExt

CONSTANT Longest        \* most bytes under the FCS: revision, count, 255 bytes

VARIABLES
    msg_fcs,    \* what calcFcs makes of the bytes as they were sent
    fcs,        \* what calcFcs makes of them as they arrived
    crc,        \* the checksum they should have, up to the first error
    bytes,      \* how many bytes that are
    flips       \* bits that arrived changed

fcsVars == <<msg_fcs, fcs, crc, bytes, flips>>

Octet == 0..255

(***************************************************************************)
(* The code.                                                               *)
(***************************************************************************)

INITFCS == \hffff

fcstab == <<
    \h0000, \h1189, \h2312, \h329b, \h4624, \h57ad, \h6536, \h74bf,
    \h8c48, \h9dc1, \haf5a, \hbed3, \hca6c, \hdbe5, \he97e, \hf8f7,
    \h1081, \h0108, \h3393, \h221a, \h56a5, \h472c, \h75b7, \h643e,
    \h9cc9, \h8d40, \hbfdb, \hae52, \hdaed, \hcb64, \hf9ff, \he876,
    \h2102, \h308b, \h0210, \h1399, \h6726, \h76af, \h4434, \h55bd,
    \had4a, \hbcc3, \h8e58, \h9fd1, \heb6e, \hfae7, \hc87c, \hd9f5,
    \h3183, \h200a, \h1291, \h0318, \h77a7, \h662e, \h54b5, \h453c,
    \hbdcb, \hac42, \h9ed9, \h8f50, \hfbef, \hea66, \hd8fd, \hc974,
    \h4204, \h538d, \h6116, \h709f, \h0420, \h15a9, \h2732, \h36bb,
    \hce4c, \hdfc5, \hed5e, \hfcd7, \h8868, \h99e1, \hab7a, \hbaf3,
    \h5285, \h430c, \h7197, \h601e, \h14a1, \h0528, \h37b3, \h263a,
    \hdecd, \hcf44, \hfddf, \hec56, \h98e9, \h8960, \hbbfb, \haa72,
    \h6306, \h728f, \h4014, \h519d, \h2522, \h34ab, \h0630, \h17b9,
    \hef4e, \hfec7, \hcc5c, \hddd5, \ha96a, \hb8e3, \h8a78, \h9bf1,
    \h7387, \h620e, \h5095, \h411c, \h35a3, \h242a, \h16b1, \h0738,
    \hffcf, \hee46, \hdcdd, \hcd54, \hb9eb, \ha862, \h9af9, \h8b70,
    \h8408, \h9581, \ha71a, \hb693, \hc22c, \hd3a5, \he13e, \hf0b7,
    \h0840, \h19c9, \h2b52, \h3adb, \h4e64, \h5fed, \h6d76, \h7cff,
    \h9489, \h8500, \hb79b, \ha612, \hd2ad, \hc324, \hf1bf, \he036,
    \h18c1, \h0948, \h3bd3, \h2a5a, \h5ee5, \h4f6c, \h7df7, \h6c7e,
    \ha50a, \hb483, \h8618, \h9791, \he32e, \hf2a7, \hc03c, \hd1b5,
    \h2942, \h38cb, \h0a50, \h1bd9, \h6f66, \h7eef, \h4c74, \h5dfd,
    \hb58b, \ha402, \h9699, \h8710, \hf3af, \he226, \hd0bd, \hc134,
    \h39c3, \h284a, \h1ad1, \h0b58, \h7fe7, \h6e6e, \h5cf5, \h4d7c,
    \hc60c, \hd785, \he51e, \hf497, \h8028, \h91a1, \ha33a, \hb2b3,
    \h4a44, \h5bcd, \h6956, \h78df, \h0c60, \h1de9, \h2f72, \h3efb,
    \hd68d, \hc704, \hf59f, \he416, \h90a9, \h8120, \hb3bb, \ha232,
    \h5ac5, \h4b4c, \h79d7, \h685e, \h1ce1, \h0d68, \h3ff3, \h2e7a,
    \he70e, \hf687, \hc41c, \hd595, \ha12a, \hb0a3, \h8238, \h93b1,
    \h6b46, \h7acf, \h4854, \h59dd, \h2d62, \h3ceb, \h0e70, \h1ff9,
    \hf78f, \he606, \hd49d, \hc514, \hb1ab, \ha022, \h92b9, \h8330,
    \h7bc7, \h6a4e, \h58d5, \h495c, \h3de3, \h2c6a, \h1ef1, \h0f78 >>

\* Mutant of UpdateFcs: seven bits select the row.
UpdateFcsSevenBits(r, b) == (r \div 256) ^^ fcstab[((r ^^ b) % 128) + 1]

\* Mutant of UpdateFcs: the register moves before the data is mixed in.
UpdateFcsLate(r, b) == (r \div 256) ^^ fcstab[(((r \div 256) ^^ b) % 256) + 1]

\* One round of the loop of calcFcs: the low byte of the register and the data
\* select a row of the table (a sequence begins at 1), the high byte moves down.
UpdateFcs(r, b) == (r \div 256) ^^ fcstab[((r ^^ b) % 256) + 1]

(***************************************************************************)
(* What it stands for: each bit shifts the register down, and a bit that   *)
(* falls out adds the polynomial x^16 + x^12 + x^5 + 1, reflected.         *)
(***************************************************************************)

Polynomial == \h8408

ShiftBit(r) == IF r % 2 = 1 THEN (r \div 2) ^^ Polynomial ELSE r \div 2

RECURSIVE ShiftBits(_, _)
ShiftBits(r, n) == IF n = 0 THEN r ELSE ShiftBits(ShiftBit(r), n - 1)

UpdateCrc(r, b) == ShiftBits(r ^^ b, 8)

(***************************************************************************)
(* Messages.  Both checksums are linear: a register and a byte are the sum *)
(* of those of their bits, so that every byte from registers that hold one *)
(* bit stands for every message; and how far two registers are apart after *)
(* the same bytes depends only on how far apart they were, so that an      *)
(* error may stand at the beginning, and zeros may follow it.              *)
(***************************************************************************)

Registers == {INITFCS} \cup {2 ^ i : i \in 0..15}

FcsInit ==
    /\ fcs \in Registers /\ msg_fcs = fcs /\ crc = fcs
    /\ bytes = 0 /\ flips = 0

\* A number that has these bits.
OfBits(bits) == MapThenSumSet(LAMBDA i : 2 ^ i, bits)

\* What else may change: one or two bits of a word in all.
Errors(width) == UNION {kSubset(n, 0 .. (width - 1)) : n \in 1 .. (2 - flips)}

CheckByte(b, error) ==
    /\ msg_fcs' = UpdateFcs(msg_fcs, b)
    /\ fcs' = UpdateFcs(fcs, b ^^ error)
    /\ bytes' = bytes + 1

\* A byte that arrives as it was sent: any, or a zero behind an error.
WholeByte(b) ==
    /\ \/ flips = 0 /\ bytes = 0
       \/ flips = 1 /\ bytes < Longest /\ b = 0
    /\ CheckByte(b, 0)
    /\ crc' = IF flips = 0 THEN UpdateCrc(crc, b) ELSE crc
    /\ UNCHANGED flips

\* A byte of which some bits have changed.
GarbledByte(bits) ==
    /\ \/ flips = 0 /\ bytes = 0 /\ fcs = INITFCS
       \/ flips = 1 /\ bytes < Longest
    /\ CheckByte(0, OfBits(bits))
    /\ flips' = flips + Cardinality(bits)
    /\ UNCHANGED crc

\* The frame ends with an FCS of which some bits have changed.
GarbledFcs(bits) ==
    /\ \/ flips = 0 /\ bytes = 0 /\ fcs = INITFCS
       \/ flips = 1 /\ bytes <= Longest
    /\ msg_fcs' = msg_fcs ^^ OfBits(bits)
    /\ flips' = flips + Cardinality(bits)
    /\ bytes' = Longest + 1
    /\ UNCHANGED <<fcs, crc>>

FcsNext ==
    \/ \E b \in Octet : WholeByte(b)
    \/ \E bits \in Errors(8) : GarbledByte(bits)
    \/ \E bits \in Errors(16) : GarbledFcs(bits)

FcsSpec == FcsInit /\ [][FcsNext]_fcsVars

-----------------------------------------------------------------------------
(***************************************************************************)
(* calcFcs with its 256 table entries is the CRC.  With one wrong digit in *)
(* the table, no other end of a line would accept the frames that meet it; *)
(* two ends of this program would still agree with each other.             *)
(***************************************************************************)
FcsIsCrc == flips = 0 => fcs = crc

(***************************************************************************)
(* One or two bits changed anywhere under the FCS or in it are always seen *)
(* by validateRx, as long as the marks and escapes of the frame stay what  *)
(* they were: the checksum of what arrived is not the FCS that arrived.    *)
(* This is what stands behind the ideal FCS of MctpSerial, in which a      *)
(* garbled frame never passes for a good one.                              *)
(***************************************************************************)
TwoBitsAreSeen == flips > 0 => fcs # msg_fcs

=============================================================================
