----------------------------- MODULE MCProdData -----------------------------
(***************************************************************************)
(* ProdData on a partition of four cells, the last of which is the test    *)
(* mode word.  The requests are one or two of every kind: at the start, in *)
(* the middle and at the end of the partition, both phase check records,   *)
(* each choice of addresses, every form of a test mode.                    *)
(***************************************************************************)
EXTENDS ProdData

Ctrl(op, off, len) == [op |-> op, off |-> off, len |-> len]
Mac(op, sel, g)    == [op |-> op, sel |-> sel, group |-> g]
Mode(f, n, v, raw) == [op |-> "mode_set", form |-> f, name |-> n, x |-> v, raw |-> raw]

Sym == Permutations(Threads)

MCRequests ==
  {Ctrl("read16", 0, 2), Ctrl("write16", 1, 2), Ctrl("read32", 1, 3),
   Ctrl("write32", 1, 2), Ctrl("write32", 3, 1)}
  \cup {[op |-> "phs_w", magic |-> m] : m \in {"sp09", "sp15"}}
  \cup {Mac("mac_w", {"bt"}, FALSE), Mac("mac_w", {"wifi"}, FALSE),
        Mac("mac_w", {"bt", "wifi"}, TRUE), Mac("mac_w", {"wifi", "imei"}, FALSE),
        Mac("mac_r", {"bt", "wifi"}, FALSE)}
  \cup {Mode("name", "BBAT", 0, TRUE), Mode("hex", "", 18, FALSE),
        Mode("bare", "", 0, FALSE)}
  \cup {[op |-> o] : o \in {"phs_r", "mode_get", "tsx_w", "tsx_r", "ext_w",
                            "ext_r", "raw_w", "raw_r", "other"}}
  \cup {[op |-> o, type |-> f] : o \in {"mmi_w", "mmi_r"}, f \in {"?", "bbat"}}
=============================================================================
