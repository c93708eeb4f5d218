\* Requests of up to 51 bytes, in pieces of any size.
CONSTANTS
  Message <- Messages
  MaxUploadSize = 40
  BufferSize = 48
  MaxImageSize = 6
SPECIFICATION Spec
INVARIANTS FileEndsAtClosingBoundary
