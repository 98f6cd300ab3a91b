----------------------------- MODULE MCPagePool -----------------------------
(* Three calls share the two pages of crates/driver/tests/page.rs.         *)
EXTENDS PagePool, TLC

CONSTANTS l1, l2, l3, page1, page2

ThreeLanes == {l1, l2, l3}
TwoPages == {page1, page2}
=============================================================================
