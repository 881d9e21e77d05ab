------------------------------ MODULE MCOverlay ------------------------------
(***************************************************************************)
(* Small trees and parameters for checking Overlay.  Offset 12 is negative *)
(* as an off_t of four bits, the largest size is 15, and the longest file  *)
(* is longer than a DWORD of two bits can say.                             *)
(***************************************************************************)
EXTENDS Overlay

MCPaths == {<<"d">>, <<"d", "f">>}
MCContents == {<<>>, <<"x", "y">>, <<"x", "y", "y", "x", "x">>}
MCReads ==
  {[offset |-> 0, max |-> 15, terminate |-> TRUE], [offset |-> 1, max |-> 1, terminate |-> TRUE],
   [offset |-> 2, max |-> 2, terminate |-> FALSE], [offset |-> 3, max |-> 15, terminate |-> TRUE],
   [offset |-> 12, max |-> 1, terminate |-> TRUE]}
MCWrites ==
  {[mode |-> "TRUNCATE", offset |-> 0, data |-> <<"y", "x">>],
   [mode |-> "TRUNCATE", offset |-> 0, data |-> <<>>],
   [mode |-> "APPEND", offset |-> 0, data |-> <<"y", "x">>],
   [mode |-> "SEGMENT", offset |-> 1, data |-> <<"y">>],
   [mode |-> "SEGMENT", offset |-> 4, data |-> <<>>],
   [mode |-> "SEGMENT", offset |-> 12, data |-> <<"y">>]}
=============================================================================
