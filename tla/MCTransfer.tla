----------------------------- MODULE MCTransfer -----------------------------
(***************************************************************************)
(* TLC instances of the file transfer, and what its names come to.         *)
(***************************************************************************)
EXTENDS FileTransfer, FileNames

\* Two files: enough for an answer that is outstanding while a file is sent.
TwoSizes == <<1, 2>>

\* What a session lists are the files its rule asks for, whatever the rule and
\* their names are (_public.cpp:338-398, 1529).
ListedAsAsked == list # {} => MatchAgrees

\* A file that has been stored is where its client reports it to be and a merge
\* will look for it, in the cases NamesAgree gives and in no other
\* (fileserver.cpp:386, client/main.cpp:618-626, 764-765).
StoredAsAsked == (\E f \in File : target[f] # Absent) => NamesAgree
=============================================================================
