\* Up to four headers in any number of archives with up to two entries each;
\* blocks of four bytes, a partial file that may look like a header.
SPECIFICATION ToolSpec
CONSTANTS
  Names <- MCNames
  FileHeaders <- MCHeaders
  MaxHeaders = 4
  BLOCK = 4
  Sizes = {0, 1, 6}
  LookAlikes = {5}
  MaxEntries = 2
INVARIANTS
  AllHeadersMerged
  ParentsFirst
  FirstArchiveWins
  FilesLoadable
