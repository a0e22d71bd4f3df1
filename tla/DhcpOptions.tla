---------------------------- MODULE DhcpOptions ----------------------------
(***************************************************************************)
(* The messages of DHCP, core/dhcp.c: how the client writes its options,   *)
(* and how it finds one in what it receives.  A message m has              *)
(*   xid, ci, yi           the transaction and two of the addresses        *)
(*   options, sname, file  three areas, each a sequence of options; the    *)
(*                         last two hold options when one that is called   *)
(*                         OVERLOAD says so.                               *)
(* An option is its code and its value; what follows END is padding.       *)
(***************************************************************************)
EXTENDS Naturals, Sequences, SequencesExt, FiniteSetsExt

CONSTANT Absent      \* NULL for an option

Opt(code, val) == [code |-> code, val |-> val]
END == Opt("END", 0)

(* The client's: the caller's options between the first and END (what size *)
(* it takes, always the same, is left out). *)
Written(xid, ci, kind, opts) ==
    [xid |-> xid, ci |-> ci, yi |-> 0, sname |-> <<>>, file |-> <<>>,
     options |-> <<Opt("MESSAGE_TYPE", kind)>> \o opts \o <<END>>]

(* What is received is in a chain of pbufs: first the fixed part, of which *)
(* sname and file matter here, then the options, wherever the chain is     *)
(* cut. *)
dhcp_unfold_reply(p) ==
    LET all == FlattenSeq(p.chain)
    IN  [xid |-> p.xid, yi |-> p.yi, sname |-> all[1], file |-> all[2],
         options |-> SubSeq(all, 3, Len(all))]

UpToEnd(area) == LET ends == {i \in DOMAIN area : area[i] = END}
                 IN  IF ends = {} THEN area ELSE SubSeq(area, 1, Min(ends) - 1)
Has(area, code) == \E i \in DOMAIN area : area[i].code = code
FirstOf(area, code) == area[Min({i \in DOMAIN area : area[i].code = code})].val
LastOf(area, code) == area[Max({i \in DOMAIN area : area[i].code = code})].val

(* Where the options go on.  When both areas hold some they are read as    *)
(* one, so that the END of sname hides what is in file. *)
Overloaded(m) ==
    LET own == UpToEnd(m.options)
        overload == IF Has(own, "OVERLOAD") THEN LastOf(own, "OVERLOAD") ELSE "NONE"
    IN  UpToEnd(CASE overload = "NONE" -> <<>>
                  [] overload = "FILE" -> m.file
                  [] overload = "SNAME" -> m.sname
                  [] overload = "SNAME_FILE" -> m.sname \o m.file)

(* Mutant of dhcp_get_option_ptr: only the area of the options is read.    *)
OwnOptionOnly(m, code) ==
    LET own == UpToEnd(m.options) IN IF Has(own, code) THEN FirstOf(own, code) ELSE Absent

dhcp_get_option_ptr(m, code) ==
    LET own == UpToEnd(m.options)
        more == Overloaded(m)
    IN  IF Has(own, code) THEN FirstOf(own, code)
        ELSE IF Has(more, code) THEN FirstOf(more, code) ELSE Absent

OptionOr(m, code, default) ==
    LET val == dhcp_get_option_ptr(m, code) IN IF val = Absent THEN default ELSE val
=============================================================================
