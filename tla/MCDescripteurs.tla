----------------------------- MODULE MCDescripteurs -----------------------------
(***************************************************************************)
(* Small names for Descripteurs: a JTAG UART that the streams go to, a     *)
(* second device, two nested mount points and a file below both.           *)
(***************************************************************************)
EXTENDS Descripteurs

DevNul  == <<"dev", "null">>
Uart    == <<"dev", "uart">>
Led     == <<"dev", "led">>
Mnt     == <<"mnt">>
MntZip  == <<"mnt", "zip">>

Devices   == {Uart, Led}
Mounts    == {Mnt, MntZip}
NomsPetit == {DevNul, Uart, Led, <<"mnt", "zip", "f">>}
=================================================================================
