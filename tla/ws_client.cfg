SPECIFICATION Spec
CONSTANTS
    skin = skin
    map = map
    None = None
    Items = {skin, map}
    Content = {skin}
    Skins = {skin}
    Owned = {skin}
    Vanishing = {map}
INVARIANTS
    BrowsedItemsLive
PROPERTIES
    ContentStaysUpToDate
    DisabledStaysUnmounted
    ListedItemsMounted
