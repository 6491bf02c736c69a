--------------------------- MODULE MCMemoryManager ---------------------------
(***************************************************************************)
(* Instances of MemoryManager for TLC.  The layout is that of malloc.h on  *)
(* a small scale: the entries fill the table's pages to the last byte, and *)
(* the pages the array.                                                    *)
(***************************************************************************)
EXTENDS MemoryManager

Layout == [pages |-> 6, table |-> 2, shared |-> 1, page |-> 12, entry |-> 4, block |-> 3]
Total == (Layout.table + 2 + Layout.shared + Layout.pages) * Layout.page
MCNumPages == Layout.pages
MCTablePages == Layout.table
MCSharedPages == Layout.shared
MCPageSize == Layout.page
MCEntrySize == Layout.entry
MCBlockSize == Layout.block

(* Both sides of both limits of myallocate. *)
Sizes == {-1, 0, 1, 6, 7}

=============================================================================
