SPECIFICATION FairSpec
CONSTANTS
  Threads = {t1, t2, t3, t4}
INVARIANTS TypeOK Exclusion FirstReaderNeverBlocks ShortQueue ReleaseMatched IInv
PROPERTIES WritersBarReaders Implements SomeoneEnters WriterEnters ReaderEntersWhenWritersStop
