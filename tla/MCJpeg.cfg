SPECIFICATION JpegFairSpec
CONSTANTS
  Bands = 3
  MaxChunks = 2
  MaxSem = 4
INVARIANTS JpegTypeOK BufferHandedOver DrawnOnce TokensSettle
PROPERTY FrameEnds
