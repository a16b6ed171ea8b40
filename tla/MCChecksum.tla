----------------------------- MODULE MCChecksum -----------------------------
(* Bytes 0x00, 0x01, 0x80 and 0xd7.                                        *)
EXTENDS Checksum
MCBytes == {{}, {0}, {7}, {0, 1, 2, 4, 6, 7}}
=============================================================================
