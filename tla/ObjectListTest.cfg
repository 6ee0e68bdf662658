CONSTANT MaxObjects = 3
SPECIFICATION TestSpec
PROPERTY HandedOutOnce
