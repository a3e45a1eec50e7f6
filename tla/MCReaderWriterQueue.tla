------------------------ MODULE MCReaderWriterQueue ------------------------
(* A queue of one block, and one of several blocks.                        *)
EXTENDS ReaderWriterQueue
=============================================================================
