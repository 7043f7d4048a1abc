------------------------------- MODULE EncSh -------------------------------
(***************************************************************************)
(* encsh translates updater.sh byte by byte into the form that the device  *)
(* runs, and back.  A file is the same translation of each of its bytes,   *)
(* so one byte stands for it.                                              *)
(***************************************************************************)
EXTENDS Integers, Sequences

CONSTANT MaxRuns   \* bound: by how many runs the byte may be away from its start

\* the instances assume this of the constants
EncShAssumption == MaxRuns \in Nat

VARIABLES
  byte,    \* of the file, as it is now
  plain,   \* history: the byte it was at the start
  away,    \* history: the runs with -d less those with -c
  option   \* of the last run

vars == <<byte, plain, away, option>>

Byte == 0..255

table == <<
  \h4a, \hf7, \h77, \h62, \hb0, \he3, \hd8, \hf6, \hd1, \h98, \h09, \h2e, \h19, \h0c, \h0d, \h7c,
  \h04, \he0, \h6b, \h22, \h10, \h08, \h15, \h16, \hb9, \h28, \h83, \h1f, \h91, \h06, \hfa, \he8,
  \hbd, \hc6, \h21, \h32, \h23, \h6f, \h01, \h26, \h5f, \h03, \h33, \hb6, \h35, \hac, \h2d, \h0a,
  \h6e, \h6c, \hfc, \hc4, \h29, \h34, \h2b, \h42, \h25, \h66, \hc9, \h3e, \h87, \hb4, \h74, \hf2,
  \h11, \h20, \h41, \hb3, \h27, \h14, \hc1, \hcd, \h3d, \h80, \hd5, \h7f, \hcf, \h4c, \h4d, \hca,
  \h75, \h51, \hc8, \ha6, \h17, \hf0, \h55, \h82, \h79, \hdc, \h59, \h5a, \h5b, \hb8, \h5d, \h40,
  \h64, \h58, \hff, \hc5, \hab, \hc0, \hae, \heb, \ha3, \had, \hea, \h6a, \h37, \h3b, \h73, \h9a,
  \h88, \h3a, \he1, \h68, \h0b, \hec, \hc7, \h76, \hf9, \h38, \h57, \hdd, \h49, \h96, \h95, \h7a,
  \h50, \h2a, \h4e, \hdb, \h00, \h48, \hd7, \h86, \h47, \h94, \ha0, \h1c, \h8b, \h8c, \h8d, \h92,
  \h45, \h90, \h7e, \h56, \h93, \hef, \h1a, \h52, \h97, \hbc, \h99, \hb5, \h7d, \h72, \h9d, \h9c,
  \hfb, \h24, \ha1, \ha2, \h07, \h46, \ha5, \h02, \h69, \he6, \ha9, \hd3, \h30, \hba, \hd6, \h84,
  \h63, \h13, \h1b, \hb2, \h1d, \haf, \h36, \h8e, \hb7, \h53, \h05, \hbb, \h12, \h78, \h8f, \hbe,
  \h71, \hbf, \he4, \h1e, \h9e, \ha4, \he5, \h2f, \h9b, \h31, \h67, \h4b, \hcb, \h43, \hc3, \hce,
  \h44, \h3c, \h0f, \hd2, \haa, \hd4, \hed, \ha7, \h7b, \h18, \hd0, \hda, \h0e, \h54, \hf1, \hde,
  \hdf, \ha8, \h3f, \he2, \h6d, \hcc, \hf8, \h70, \he7, \h61, \he9, \h85, \h65, \h2c, \h39, \hee,
  \h60, \h81, \h89, \hc2, \hf3, \hf4, \hf5, \h8a, \h5c, \h5e, \hd9, \h4f, \h9f, \hb1, \hfd, \hfe
>>
enctab == [c \in Byte |-> table[c + 1]]

\* The position of the byte in the table, the first one if there were several.
NextPosition(c) == ((CHOOSE i \in Byte : enctab[i] = c) % 255) + 1    \* mutant
decode_c(c) == CHOOSE i \in Byte : enctab[i] = c /\ \A j \in 0..i - 1 : enctab[j] # c
encode_c(c) == enctab[c]

Init == byte \in Byte /\ plain = byte /\ away = 0 /\ option = ""

\* strcmp is not 0 for any other word than -d.
Run(word) ==
  /\ option' = word
  /\ byte' = IF word # "-d" THEN decode_c(byte) ELSE encode_c(byte)
  /\ away' = IF word = "-d" THEN away + 1 ELSE away - 1
  /\ away' \in -MaxRuns..MaxRuns /\ UNCHANGED plain

Next == \E word \in {"-d", "-c"} : Run(word)

Spec == Init /\ [][Next]_vars

-----------------------------------------------------------------------------
(* encsh.c:11-28: every byte is in the table once, so that as many runs in *)
(* one direction as in the other, in whatever order, give the file back.   *)
ComesBack == away = 0 => byte = plain

(* encsh.c:55: "Decode file: encsh -d file.sh"                             *)
DecodeDecodes == [][option' = "-d" => byte' = decode_c(byte)]_vars
=============================================================================
