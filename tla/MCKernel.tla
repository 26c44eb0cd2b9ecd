------------------------------- MODULE MCKernel -------------------------------
EXTENDS Boot, TLC

\* Exit statuses: the 42 of src/app/main.c and a 0.
MCExitStatuses == {0, 42}

\* mods_count: none, module 0 alone, module 0 and one or two modules i > 0.
MCModuleCounts == {0, 1}
MCFsModuleCounts == {0, 1, 2, 3}

\* Files create_initrd may be given: two tests read, one it cannot open,
\* one too large for test_read_file's buffer.  A byte is a one-letter token.
Hello == [name |-> "hello.txt", content |-> <<"h", "i">>, opens |-> TRUE]
TestTxt == [name |-> "test.txt", content |-> <<"t">>, opens |-> TRUE]
Missing == [name |-> "hello.txt", content |-> <<"x">>, opens |-> FALSE]
Readme == [name |-> "README.txt", content |-> [j \in 1..512 |-> "r"], opens |-> TRUE]

\* Modules i > 0 the loader may pass: two images built by create_initrd, a
\* module with no initrd in it, and one without a command line.
MCModules ==
  { create_initrd(<<Hello, TestTxt>>),
    create_initrd(<<Missing, Readme, TestTxt>>),
    RawModule(TRUE, -1, 0),
    RawModule(FALSE, -1, 0) }

\* Modules that are not initrd images but pass init_initrd's search: a
\* stray word 0xBF at offset 4 followed by 70, and the signature with a
\* header whose magic is 0.
MCBadModules == { RawModule(TRUE, 4, 70), SignedModule(0, 3) }
MCBadModuleCounts == {2}
============================================================================
