------------------------------ MODULE MCExchange ------------------------------
(***************************************************************************)
(* An instance of Exchange for TLC: header names that differ in case, *)
(* what a browser and what a program may send, pages of every encoding.     *)
(***************************************************************************)
EXTENDS Exchange, TLC

CONSTANTS r1, r2

MCSpellings == {"Host", "Content-Type", "Content-Length", "Accept-Encoding", "Range",
                "X-Secret", "x-secret", "X-Amz-Id", "x-amz-id",
                "X-Forwarded-For", "x-forwarded-for", "X-Team", "x-team"}
MCLower == [k \in MCSpellings |->
              CASE k = "X-Secret" -> "x-secret" [] k = "X-Amz-Id" -> "x-amz-id"
                [] k = "X-Forwarded-For" -> "x-forwarded-for" [] k = "X-Team" -> "x-team"
                [] OTHER -> k]

\* A form sent by a browser; a program that asks for a page and sets nothing.
MCAsks == {[headers |-> MCSpellings \ {"Host", "x-secret", "x-amz-id", "x-forwarded-for", "x-team"},
            body |-> TRUE],
           [headers |-> {}, body |-> FALSE]}

\* A page in every encoding, one that is not what it says, one that is no page.
MCPages == {[html |-> TRUE, label |-> l, bytes |-> l] : l \in Codings}
               \cup {[html |-> TRUE, label |-> "gzip", bytes |-> "none"],
                     [html |-> FALSE, label |-> "none", bytes |-> "none"]}

MCCustom == {"X-Team", "x-secret", "Content-Type"}
Symmetric == Permutations(Requests)
===============================================================================
