------------------------------ MODULE MC_PngParser ------------------------------
(* Two calls, on files of up to two chunks drawn from every shape the     *)
(* handlers distinguish, plus a chunk with a bad CRC.                     *)
EXTENDS PngParser

Chunk(t, b, crc) == [type |-> t, body |-> b, crc_ok |-> crc]

MC_Chunks ==
  {Chunk("tEXt", b, TRUE) : b \in {"kv", "k", "nonul"}}
  \cup {Chunk("zTXt", b, TRUE) : b \in {"kv", "kvbig", "k", "nomethod", "baddata"}}
  \cup {Chunk("tIME", b, TRUE) : b \in {"len7", "len6"}}
  \cup {Chunk("other", "any", TRUE), Chunk("other", "any", FALSE)}

MC_Files ==
  {[magic_ok |-> TRUE, chunks |-> cs, tail |-> t] :
     cs \in {<< >>} \cup {<< c >> : c \in MC_Chunks}
             \cup {<< c, d >> : c, d \in MC_Chunks},
     t \in BOOLEAN}
  \cup {[magic_ok |-> FALSE, chunks |-> << >>, tail |-> FALSE]}

MC_MaxCalls == 2
=============================================================================
